---------------------------- MODULE Spec2Model ----------------------------
(***************************************************************************)
(* Verification model of the greenhouse controller:                        *)
(*   controller.py  - decide(), execute(), override queries                *)
(*   resilience.py  - DeviceHealth, retry_with_fallback                    *)
(*   main.py        - the control loop                                     *)
(*   web/app.py     - the dashboard's override operations                  *)
(* Temperatures are whole degrees Fahrenheit.  A Python None is the empty  *)
(* sequence and a present value v is the one-element sequence <<v>>.       *)
(***************************************************************************)
EXTENDS Integers, Sequences, FiniteSets, TLC

\* ------------------------------------------------------------------------
\* Bounds of the model
\* ------------------------------------------------------------------------

\* longest air_temp_f series of a trajectory handed to decide()
MaxTrajLen == 3
\* last hour the health clock reaches
MaxClock == 2
\* largest consecutive_failures count a device reaches
MaxFailures == 2
\* clock ticks in one UTC day of the control loop's clock
DayLen == 3
\* last tick the control loop's clock reaches
MaxTime == 3
\* rows the overrides table holds
MaxOverrides == 2
\* hourly entries of a forecast array
MaxHours == 2
\* hourly entries of the is_day array handed to the sunset test
MaxDayFlags == 4
\* horizon_hours handed to thermal_model.predict
MaxHorizonHours == 1
\* hourly entries of a forecast handed to thermal_model.predict
MaxSimHours == 2
\* last poll interval the clock of the two threads reaches
MaxCacheClock == 3
\* time.time() of the cycle model stops advancing after this many steps
MaxCycleTicks == 5
\* cycles run with the same readings
MaxSteadyCycles == 4
\* cycles that fetch or reuse a forecast
MaxForecastCycles == 3
\* requests the dashboard sends in a run of the override model
MaxOverrideRequests == 4
\* integration steps taken one after the other
MaxEulerSteps == 3

\* ------------------------------------------------------------------------
\* Configuration (config.py).  The decision margins are read by
\* controller.py as config.<NAME>; config.py of this snapshot does not set
\* them, so they carry the values the documentation gives.
\* ------------------------------------------------------------------------

\* samples of a trajectory examined by _predicted_max/_predicted_min
PREDICTION_HORIZON_MIN == 2
\* shades open when sunset is at most this many minutes away
SHADE_SUNSET_LEAD_MIN == 60
\* outdoor must be this much cooler than indoor for the fans to help
FAN_EFFECTIVENESS_DELTA_F == 5
\* indoor must be this far below cool_sp before shades re-open
SHADE_OPEN_MARGIN_F == 5
\* fans stop when indoor is this far below cool_sp
FAN_STOP_MARGIN_F == 2
\* heating and cooling power of the minisplit in W (18,000 BTU/h)
HVAC_CAPACITY_W == 5275

\* get_setpoints defaults
DEFAULT_HEAT_SP == 60
DEFAULT_COOL_SP == 80

VARIABLES
    d_in,       \* the arguments of one call of decide()
    d_out,      \* the dictionary it returned
    d_pc,       \* "call" before decide() has run, "done" after
    r_health,   \* resilience._health: device name -> DeviceHealth
    r_clock,    \* datetime.now() in whole hours
    r_pc,       \* position inside retry_with_fallback, "idle" outside
    r_call,     \* the running call: device, fallback, attempt, its events;
                \* "exhausted" is history: device -> the calls that used up both
                \* attempts since the device's last successful call
    r_ret,      \* what the last call returned: (value, is_fallback)
    r_good,     \* history: device -> the value its last successful read gave
    wall_clock,        \* the wall clock (UTC) of loop and dashboard, in ticks
    overrides,  \* the rows of the overrides table
    sensor_log, \* the actuator fields of the last sensor_log row, or None
    pc,         \* position of main()'s loop inside the cycle
    cyc,        \* the cycle's record: poll result, decisions, commands
    x_in,       \* the arguments of one call of execute() or apply_bias_correction()
    x_out,      \* what the call returned or left behind
    x_pc,       \* "call" before it has run, "done" after, "off" when unused
    x_clock,    \* datetime.now() as the call reads it, in minutes
    ht,         \* the ShellyHT object: _mqtt_data, _mqtt_last_update, _lock
    listener,   \* the MQTT background thread inside mqtt_on_message
    main_thread,\* the main thread: setup, ShellyHT.read, shutdown; "known" is
                \* history, the value of "heard" when read tested the cache
    proc,       \* module-level names: main.mqtt_client, logger._conn
    ht_clock,   \* datetime.now() of the two threads, in poll intervals
    heard       \* history: the last temperature message and when it came

decideVars == <<d_in, d_out, d_pc>>
retryVars == <<r_health, r_clock, r_pc, r_call, r_ret, r_good>>
loopVars == <<wall_clock, overrides, sensor_log, pc, cyc>>
callVars == <<x_in, x_out, x_pc, x_clock>>
threadVars == <<ht, listener, main_thread, proc, ht_clock, heard>>
vars == <<d_in, d_out, d_pc, r_health, r_clock, r_pc, r_call, r_ret, r_good,
          wall_clock, overrides, sensor_log, pc, cyc, x_in, x_out, x_pc,
          x_clock, ht, listener, main_thread, proc, ht_clock, heard>>

\* ------------------------------------------------------------------------
\* Python values
\* ------------------------------------------------------------------------
None == <<>>
Some(v) == <<v>>
IsNone(o) == o = <<>>
Val(o) == o[1]

Min2(a, b) == IF a <= b THEN a ELSE b
SetMax(S) == CHOOSE x \in S : \A y \in S : y <= x
SetMin(S) == CHOOSE x \in S : \A y \in S : x <= y

\* all sequences over S of length 0..n
RECURSIVE SeqsUpTo(_, _)
SeqsUpTo(S, n) ==
    IF n = 0 THEN {<<>>}
    ELSE LET shorter == SeqsUpTo(S, n - 1)
         IN shorter \cup {Append(s, x) : s \in {t \in shorter : Len(t) = n - 1}, x \in S}

Actuators == {"shades_east", "shades_west", "fan", "hvac"}
Shades == {"shades_east", "shades_west"}

\* ------------------------------------------------------------------------
\* controller.py: trajectory helpers
\* A trajectory is None or Some(air_temp_f series).
\* ------------------------------------------------------------------------
HorizonOf(temps) == Min2(PREDICTION_HORIZON_MIN, Len(temps) - 1)

\* temps[1:h+1] of the 0-based Python list
HorizonSamples(temps) == {temps[i + 1] : i \in 1..HorizonOf(temps)}

_predicted_max(trajectory) ==
    IF IsNone(trajectory) \/ Val(trajectory) = <<>> THEN None
    ELSE IF HorizonOf(Val(trajectory)) >= 1
         THEN Some(SetMax(HorizonSamples(Val(trajectory))))
         ELSE None

_predicted_min(trajectory) ==
    IF IsNone(trajectory) \/ Val(trajectory) = <<>> THEN None
    ELSE IF HorizonOf(Val(trajectory)) >= 1
         THEN Some(SetMin(HorizonSamples(Val(trajectory))))
         ELSE None

\* ------------------------------------------------------------------------
\* controller.py: sunset detection
\* A forecast is None or Some([is_day |-> seq of 0/1, time |-> seq of
\* minutes]); now is the clock in minutes.
\* ------------------------------------------------------------------------
SunsetIndices(fc) ==
    {i \in 1..(Len(fc.is_day) - 1) :
        /\ fc.is_day[i] = 1          \* is_day[i-1] of the 0-based list
        /\ fc.is_day[i + 1] = 0
        /\ i < Len(fc.time)}

_minutes_to_sunset(corrected_forecast, now) ==
    IF IsNone(corrected_forecast) THEN None
    ELSE LET fc == Val(corrected_forecast)
         IN IF SunsetIndices(fc) = {} THEN None
            ELSE Some(fc.time[SetMin(SunsetIndices(fc)) + 1] - now)

_is_near_sunset(corrected_forecast, now) ==
    LET mins == _minutes_to_sunset(corrected_forecast, now)
    IN ~IsNone(mins) /\ 0 <= Val(mins) /\ Val(mins) <= SHADE_SUNSET_LEAD_MIN

\* ------------------------------------------------------------------------
\* controller.py: decide()
\* ------------------------------------------------------------------------
fans_effective(actual, outdoor) ==
    /\ ~IsNone(actual)
    /\ ~IsNone(outdoor)
    /\ Val(outdoor) < Val(actual) - FAN_EFFECTIVENESS_DELTA_F

\* ShadeRule with the sunset test placed before the overheat test
ShadeRuleSunsetFirst(pred_max, pred_max_open, near_sunset, actual, cool_sp) ==
    IF near_sunset THEN "open"
    ELSE IF ~IsNone(pred_max) /\ Val(pred_max) > cool_sp THEN "closed"
    ELSE IF /\ ~IsNone(pred_max_open) /\ Val(pred_max_open) < cool_sp
            /\ ~IsNone(actual) /\ Val(actual) < cool_sp - SHADE_OPEN_MARGIN_F
         THEN "open"
    ELSE "hold"

\* ShadeRule that re-opens without the margin below cool_sp
ShadeRuleNoMargin(pred_max, pred_max_open, near_sunset, actual, cool_sp) ==
    IF ~IsNone(pred_max) /\ Val(pred_max) > cool_sp THEN "closed"
    ELSE IF near_sunset THEN "open"
    ELSE IF /\ ~IsNone(pred_max_open) /\ Val(pred_max_open) < cool_sp
            /\ ~IsNone(actual) /\ Val(actual) < cool_sp
         THEN "open"
    ELSE "hold"

\* the shade branch for one actuator: "closed", "open" or "hold" (no key)
ShadeRule(pred_max, pred_max_open, near_sunset, actual, cool_sp) ==
    IF ~IsNone(pred_max) /\ Val(pred_max) > cool_sp THEN "closed"
    ELSE IF near_sunset THEN "open"
    ELSE IF /\ ~IsNone(pred_max_open) /\ Val(pred_max_open) < cool_sp
            /\ ~IsNone(actual) /\ Val(actual) < cool_sp - SHADE_OPEN_MARGIN_F
         THEN "open"
    ELSE "hold"

\* FanRule that turns the fan off whenever it does not turn it on
FanRuleNoHold(actual, outdoor, cool_sp) ==
    IF IsNone(actual) THEN None
    ELSE IF Val(actual) > cool_sp /\ fans_effective(actual, outdoor) THEN Some(TRUE)
    ELSE Some(FALSE)

\* the fan branch: Some(TRUE), Some(FALSE) or None (hold, no key)
FanRule(actual, outdoor, cool_sp) ==
    IF IsNone(actual) THEN None
    ELSE IF Val(actual) > cool_sp /\ fans_effective(actual, outdoor) THEN Some(TRUE)
    ELSE IF Val(actual) < cool_sp - FAN_STOP_MARGIN_F \/ ~fans_effective(actual, outdoor)
         THEN Some(FALSE)
    ELSE None

\* HvacRule without the "and not fan_commanded" conjunct
HvacRuleIgnoringFan(pred_min, pred_max, actual, outdoor, fan_commanded, heat_sp, cool_sp) ==
    IF ~IsNone(pred_min) /\ Val(pred_min) < heat_sp THEN "heat"
    ELSE IF /\ ~IsNone(pred_max) /\ Val(pred_max) > cool_sp
            /\ ~fans_effective(actual, outdoor)
         THEN "cool"
    ELSE "off"

\* HvacRule with the cooling test before the heating test
HvacRuleCoolFirst(pred_min, pred_max, actual, outdoor, fan_commanded, heat_sp, cool_sp) ==
    IF /\ ~IsNone(pred_max) /\ Val(pred_max) > cool_sp
       /\ ~fans_effective(actual, outdoor)
       /\ ~fan_commanded
    THEN "cool"
    ELSE IF ~IsNone(pred_min) /\ Val(pred_min) < heat_sp THEN "heat"
    ELSE "off"

\* the hvac branch; fan_commanded is decisions.get("fan", state.fan_on)
HvacRule(pred_min, pred_max, actual, outdoor, fan_commanded, heat_sp, cool_sp) ==
    IF ~IsNone(pred_min) /\ Val(pred_min) < heat_sp THEN "heat"
    ELSE IF /\ ~IsNone(pred_max) /\ Val(pred_max) > cool_sp
            /\ ~fans_effective(actual, outdoor)
            /\ ~fan_commanded
         THEN "cool"
    ELSE "off"

\* keys of the returned dictionary
ShadeKeys(shade, overridden) ==
    IF shade = "hold" THEN {} ELSE Shades \ overridden

\* FanKeys without the test of the overridden set
FanKeysIgnoringOverride(fan, overridden) ==
    IF ~IsNone(fan) THEN {"fan"} ELSE {}

FanKeys(fan, overridden) ==
    IF "fan" \notin overridden /\ ~IsNone(fan) THEN {"fan"} ELSE {}

HvacKeys(actual, overridden) ==
    IF "hvac" \notin overridden /\ ~IsNone(actual) THEN {"hvac"} ELSE {}

decide(state, trajectory_current, trajectory_shades_open, heat_sp, cool_sp, overridden, corrected_forecast, now) ==
    LET actual == state.indoor_temp
        outdoor == state.outdoor_temp
        pred_max == _predicted_max(trajectory_current)
        pred_min == _predicted_min(trajectory_current)
        pred_max_open == _predicted_max(trajectory_shades_open)
        near_sunset == _is_near_sunset(corrected_forecast, now)
        shade == ShadeRule(pred_max, pred_max_open, near_sunset, actual, cool_sp)
        fan == FanRule(actual, outdoor, cool_sp)
        fanKeys == FanKeys(fan, overridden)
        fan_commanded == IF fanKeys # {} THEN Val(fan) ELSE state.fan_on
        hvac == HvacRule(pred_min, pred_max, actual, outdoor, fan_commanded,
                         heat_sp, cool_sp)
    IN [a \in ShadeKeys(shade, overridden) \cup fanKeys \cup HvacKeys(actual, overridden) |->
            IF a \in Shades THEN shade
            ELSE IF a = "fan" THEN Val(fan)
            ELSE hvac]

\* ------------------------------------------------------------------------
\* Specification of decide() as a function of its arguments
\* ------------------------------------------------------------------------
\* temperatures a trajectory sample takes: below heat_sp, at cool_sp, above it
TrajTemps == {DEFAULT_HEAT_SP - 1, DEFAULT_COOL_SP, DEFAULT_COOL_SP + 1}

\* temperatures a sample of the shades-open run takes: below cool_sp, at it
TrajOpenTemps == {DEFAULT_COOL_SP - 1, DEFAULT_COOL_SP}

IndoorTemps == {None} \cup {Some(DEFAULT_COOL_SP - SHADE_OPEN_MARGIN_F - 1),
                            Some(DEFAULT_COOL_SP - SHADE_OPEN_MARGIN_F),
                            Some(DEFAULT_COOL_SP - 1),
                            Some(DEFAULT_COOL_SP + 1)}

OutdoorTemps == {None} \cup {Some(DEFAULT_COOL_SP - 10),
                             Some(DEFAULT_COOL_SP + 1 - FAN_EFFECTIVENESS_DELTA_F)}

DecideStates ==
    [indoor_temp : IndoorTemps, outdoor_temp : OutdoorTemps, fan_on : BOOLEAN]

\* thermal_model.predict: the series starts with the indoor temperature
\* (68 F when it is unknown) and both runs of a cycle have the same length
InitialSample(state) ==
    IF IsNone(state.indoor_temp) THEN 68 ELSE Val(state.indoor_temp)

SeriesFrom(first, temps) ==
    {<<>>} \cup {<<first>> \o tail : tail \in SeqsUpTo(temps, MaxTrajLen - 1)}

OptionalSeries(first, temps) ==
    {None} \cup {Some(s) : s \in SeriesFrom(first, temps)}

\* the shades-open run is only read for its maximum: series that stay at
\* one temperature after the first sample
FlatSeries(first, temps) ==
    {None, Some(<<>>)} \cup
    {Some(<<first>> \o [i \in 1..n |-> v]) : v \in temps, n \in 0..(MaxTrajLen - 1)}

TrajectoryPairs(state) ==
    {p \in OptionalSeries(InitialSample(state), TrajTemps)
            \X FlatSeries(InitialSample(state), TrajOpenTemps) :
        \/ IsNone(p[1])
        \/ IsNone(p[2])
        \/ Len(Val(p[1])) = Len(Val(p[2]))}

\* hourly forecasts: no sunset, sunset at 60, sunset at 120
DecideForecasts ==
    {None} \cup {Some([is_day |-> d, time |-> <<0, 60, 120>>]) :
                    d \in {<<1, 1, 1>>, <<1, 0, 0>>, <<1, 1, 0>>}}

DecideClocks == {30, 90}

DecideOf(in) ==
    decide(in.state, in.trajectory_current, in.trajectory_shades_open,
           in.heat_sp, in.cool_sp, in.overridden, in.corrected_forecast, in.now)

\* retry_with_fallback at rest, for the specifications that do not run it
NoCall ==
    [device |-> "", fallback |-> <<>>, attempt |-> 0, events |-> <<>>, started |-> 0,
     exhausted |-> <<>>]
NoReturn == [value |-> <<>>, is_fallback |-> FALSE]

IdleRetry ==
    /\ r_health = <<>>
    /\ r_clock = 0
    /\ r_pc = "idle"
    /\ r_call = NoCall
    /\ r_ret = NoReturn
    /\ r_good = <<>>

\* GreenhouseState(): the dataclass defaults of the fields the loop uses
NewState ==
    [indoor_temp |-> None, outdoor_temp |-> None,
     shades_east |-> "open", shades_west |-> "open",
     fan_on |-> FALSE, hvac_mode |-> "off"]

\* the cycle record before the controller has run
NewCycle ==
    [ran |-> FALSE, overridden |-> {}, live |-> {}, commands |-> {},
     persisted |-> FALSE]

\* the control loop before main() has started, for the specifications
\* that do not run it
IdleLoop ==
    /\ wall_clock = 0
    /\ overrides = {}
    /\ sensor_log = None
    /\ pc = "start"
    /\ cyc = NewCycle

\* no single call in progress, for the specifications that make none
IdleCall ==
    /\ x_in = <<>>
    /\ x_out = <<>>
    /\ x_pc = "off"
    /\ x_clock = 0

\* the ShellyHT object as __init__ leaves it
NewShellyHT == [_mqtt_data |-> <<>>, _mqtt_last_update |-> None, _lock |-> "free"]

\* no threads, for the specifications that do not run them
IdleThreads ==
    /\ ht = NewShellyHT
    /\ listener = [pc |-> "off"]
    /\ main_thread = [pc |-> "off"]
    /\ proc = [mqtt_client |-> None, _conn |-> None]
    /\ ht_clock = 0
    /\ heard = None

\* decide() at rest, for the specifications that do not call it
IdleDecide ==
    /\ d_in = <<>>
    /\ d_out = <<>>
    /\ d_pc = "off"

InitDecide ==
    /\ IdleThreads
    /\ IdleRetry
    /\ IdleLoop
    /\ IdleCall
    /\ \E st \in DecideStates, ov \in SUBSET Actuators,
          fc \in DecideForecasts, clock \in DecideClocks :
          \E p \in TrajectoryPairs(st) :
            d_in = [state |-> st,
                    trajectory_current |-> p[1],
                    trajectory_shades_open |-> p[2],
                    heat_sp |-> DEFAULT_HEAT_SP,
                    cool_sp |-> DEFAULT_COOL_SP,
                    overridden |-> ov,
                    corrected_forecast |-> fc,
                    now |-> clock]
    /\ d_out = <<>>
    /\ d_pc = "call"

CallDecide ==
    /\ d_pc = "call"
    /\ d_out' = DecideOf(d_in)
    /\ d_pc' = "done"
    /\ UNCHANGED d_in
    /\ UNCHANGED <<retryVars, loopVars, callVars, threadVars>>

NextDecide == CallDecide

SpecDecide == InitDecide /\ [][NextDecide]_vars

\* ------------------------------------------------------------------------
\* resilience.py: DeviceHealth
\* ------------------------------------------------------------------------

\* config.ALERT_THRESHOLDS, in hours
ALERT_THRESHOLDS ==
    [open_meteo |-> 5, shelly_ht |-> 2, ambient_weather |-> 5, shelly_3em |-> 1,
     shelly_relay |-> 0, kasa_circ_fans |-> 0, minisplit |-> 0, shades |-> 0]

\* DeviceHealth(name=device_name): the dataclass defaults
NewHealth ==
    [last_success |-> None, last_value |-> None,
     consecutive_failures |-> 0, alert_sent |-> FALSE]

\* record_success that leaves alert_sent as it was
record_success_KeepsAlert(health, value, now) ==
    [health EXCEPT !.last_success = Some(now),
                   !.last_value = Some(value),
                   !.consecutive_failures = 0]

record_success(health, value, now) ==
    [health EXCEPT !.last_success = Some(now),
                   !.last_value = Some(value),
                   !.consecutive_failures = 0,
                   !.alert_sent = FALSE]

\* record_failure called once for each of the two failed attempts
record_failure_PerAttempt(health) ==
    [health EXCEPT !.consecutive_failures = @ + 2]

record_failure(health) ==
    [health EXCEPT !.consecutive_failures = @ + 1]

\* hours_since_success() >= threshold; float("inf") when there was no success
HoursSinceSuccessAtLeast(health, now, threshold) ==
    IF IsNone(health.last_success) THEN TRUE
    ELSE now - Val(health.last_success) >= threshold

should_alert(name, health, now) ==
    IF name \notin DOMAIN ALERT_THRESHOLDS THEN FALSE
    ELSE IF health.alert_sent THEN FALSE
    ELSE IF ALERT_THRESHOLDS[name] = 0 /\ health.consecutive_failures > 0 THEN TRUE
    ELSE HoursSinceSuccessAtLeast(health, now, ALERT_THRESHOLDS[name])

mark_alerted(health) == [health EXCEPT !.alert_sent = TRUE]

\* get_health: the registry entry, created on first use
get_health(registry, device_name) ==
    IF device_name \in DOMAIN registry THEN registry
    ELSE [d \in DOMAIN registry \cup {device_name} |->
            IF d = device_name THEN NewHealth ELSE registry[d]]

\* ------------------------------------------------------------------------
\* resilience.py: retry_with_fallback, one action per step
\* ------------------------------------------------------------------------

\* devices read through retry_with_fallback: one that alerts immediately,
\* one with a threshold in hours (main.py)
RetryDevices == {"kasa_circ_fans", "shelly_3em"}

\* what a read function returns; no read function of the repository
\* returns None
ReadValues == {"reading_a", "reading_b"}

\* fallback_value: None, or a value such as {"on": None}
FallbackValues == {None, Some("fallback")}

\* the attempt after which retry_with_fallback sleeps
SleepsAfterEveryFailure(attempt) == TRUE

SleepsAfter(attempt) == attempt = 0

\* range(2)
AttemptsLeft(attempt) == attempt + 1 < 2

\* "except Exception" encloses device_call() in every iteration
Caught(attempt) == TRUE

\* the registry with one entry replaced
WithEntry(registry, name, entry) ==
    [d \in DOMAIN registry \cup {name} |-> IF d = name THEN entry ELSE registry[d]]

\* history: the calls of a device that used up both attempts since its last
\* successful call
ExhaustedCalls(history, device) ==
    IF device \in DOMAIN history THEN history[device] ELSE 0

\* health = get_health(device_name); the loop is entered
StartCall ==
    /\ r_pc = "idle"
    /\ \E dev \in RetryDevices, fb \in FallbackValues :
        /\ dev \in DOMAIN r_health => r_health[dev].consecutive_failures < MaxFailures
        /\ r_health' = get_health(r_health, dev)
        /\ r_call' = [device |-> dev, fallback |-> fb, attempt |-> 0,
                      events |-> <<>>, started |-> r_clock,
                      exhausted |-> r_call.exhausted]
    /\ r_pc' = "attempt"
    /\ r_ret' = NoReturn
    /\ UNCHANGED <<r_clock, r_good>>
    /\ UNCHANGED <<decideVars, loopVars, callVars, threadVars>>

\* value = device_call() returns: record_success, return (value, False)
AttemptSucceeds ==
    /\ r_pc = "attempt"
    /\ \E value \in ReadValues :
        /\ r_health' = [r_health EXCEPT ![r_call.device] =
                            record_success(@, value, r_clock)]
        /\ r_ret' = [value |-> Some(value), is_fallback |-> FALSE]
        /\ r_good' = WithEntry(r_good, r_call.device, value)
    /\ r_call' = [r_call EXCEPT !.events = Append(@, "ok"),
                                !.exhausted = WithEntry(@, r_call.device, 0)]
    /\ r_pc' = "returned"
    /\ UNCHANGED r_clock
    /\ UNCHANGED <<decideVars, loopVars, callVars, threadVars>>

\* the statement reached after a failed attempt has been handled
AfterFailure(attempt) == IF AttemptsLeft(attempt) THEN "attempt" ELSE "exhausted"

\* device_call() raises: the except branch
AttemptRaises ==
    /\ r_pc = "attempt"
    /\ r_call' = [r_call EXCEPT !.events = Append(@, "raise"),
                                !.attempt = IF Caught(@) /\ ~SleepsAfter(@)
                                            THEN @ + 1 ELSE @]
    /\ r_pc' = IF ~Caught(r_call.attempt) THEN "raised"
               ELSE IF SleepsAfter(r_call.attempt) THEN "sleep"
               ELSE AfterFailure(r_call.attempt)
    /\ UNCHANGED <<r_health, r_clock, r_ret, r_good>>
    /\ UNCHANGED <<decideVars, loopVars, callVars, threadVars>>

\* time.sleep(config.RETRY_DELAY)
RetrySleep ==
    /\ r_pc = "sleep"
    /\ r_call' = [r_call EXCEPT !.events = Append(@, "sleep"), !.attempt = @ + 1]
    /\ r_pc' = AfterFailure(r_call.attempt)
    /\ UNCHANGED <<r_health, r_clock, r_ret, r_good>>
    /\ UNCHANGED <<decideVars, loopVars, callVars, threadVars>>

\* FallbackResult without the last known good value
FallbackResultIgnoringLast(health, fallback_value) == fallback_value

\* the value handed back once both attempts have failed
FallbackResult(health, fallback_value) ==
    IF ~IsNone(health.last_value) THEN health.last_value ELSE fallback_value

\* after the loop: record_failure, return last known good value or fallback
Exhausted ==
    /\ r_pc = "exhausted"
    /\ r_health' = [r_health EXCEPT ![r_call.device] = record_failure(@)]
    /\ r_ret' = [value |-> FallbackResult(r_health[r_call.device], r_call.fallback),
                 is_fallback |-> TRUE]
    /\ r_call' = [r_call EXCEPT
                    !.exhausted = WithEntry(@, r_call.device,
                                            ExhaustedCalls(@, r_call.device) + 1)]
    /\ r_pc' = "returned"
    /\ UNCHANGED <<r_clock, r_good>>
    /\ UNCHANGED <<decideVars, loopVars, callVars, threadVars>>

\* the caller takes the result
CallReturns ==
    /\ r_pc = "returned"
    /\ r_pc' = "idle"
    /\ UNCHANGED <<r_health, r_clock, r_call, r_ret, r_good>>
    /\ UNCHANGED <<decideVars, loopVars, callVars, threadVars>>

\* an hour passes
ClockTick ==
    /\ r_clock < MaxClock
    /\ r_clock' = r_clock + 1
    /\ UNCHANGED <<r_health, r_pc, r_call, r_ret, r_good>>
    /\ UNCHANGED <<decideVars, loopVars, callVars, threadVars>>

\* the alerting consumer, between two reads of the synchronous loop:
\* should_alert() then mark_alerted()
Alert ==
    /\ r_pc = "idle"
    /\ \E dev \in DOMAIN r_health :
        /\ should_alert(dev, r_health[dev], r_clock)
        /\ r_health' = [r_health EXCEPT ![dev] = mark_alerted(@)]
    /\ UNCHANGED <<r_clock, r_pc, r_call, r_ret, r_good>>
    /\ UNCHANGED <<decideVars, loopVars, callVars, threadVars>>

InitRetry ==
    /\ IdleThreads
    /\ IdleDecide
    /\ IdleRetry
    /\ IdleLoop
    /\ IdleCall

NextRetry ==
    \/ StartCall
    \/ AttemptSucceeds
    \/ AttemptRaises
    \/ RetrySleep
    \/ Exhausted
    \/ CallReturns
    \/ ClockTick
    \/ Alert

SpecRetry == InitRetry /\ [][NextRetry]_vars

\* ------------------------------------------------------------------------
\* Timestamps as the overrides table holds and compares them.  A text is
\* the sequence <<date, separator, time of day>>: fixed-width fields, so
\* SQLite's bytewise comparison of two texts is the lexicographic order.
\* ------------------------------------------------------------------------
SepT == 84       \* "T", datetime.isoformat()
SepSpace == 32   \* " ", SQLite datetime('now')

\* app.py: expires_at.isoformat()
IsoFormat(t) == <<t \div DayLen, SepT, t % DayLen>>

\* SQLite: datetime('now')
SqliteNow(t) == <<t \div DayLen, SepSpace, t % DayLen>>

\* the instant a stored text denotes
InstantOf(text) == text[1] * DayLen + text[3]

\* SQLite: a > b on TEXT values (BINARY collation)
RECURSIVE TextGreater(_, _)
TextGreater(a, b) ==
    IF a = <<>> \/ b = <<>> THEN a # <<>>
    ELSE IF Head(a) # Head(b) THEN Head(a) > Head(b)
    ELSE TextGreater(Tail(a), Tail(b))

\* ------------------------------------------------------------------------
\* controller.py: override queries
\* ------------------------------------------------------------------------

\* WHERE expires_at > datetime('now') AND cancelled_at IS NULL
ActiveRows(rows, t) ==
    {r \in rows : TextGreater(r.expires_at, SqliteNow(t)) /\ IsNone(r.cancelled_at)}

\* query_ok is FALSE when the query raises (the except branch)
get_active_overrides(rows, t, query_ok) ==
    IF query_ok THEN {r.actuator : r \in ActiveRows(rows, t)} ELSE {}

\* the command of the active row of an actuator, or None (api_set_override
\* leaves at most one row of an actuator uncancelled)
ActiveCommand(rows, t, actuator) ==
    LET mine == {r \in ActiveRows(rows, t) : r.actuator = actuator}
    IN IF mine = {} THEN None ELSE Some((CHOOSE r \in mine : TRUE).command)

\* apply_override_states(state, db_path); main() does not call it
apply_override_states(st, rows, t, query_ok) ==
    IF ~query_ok THEN st
    ELSE LET east == ActiveCommand(rows, t, "shades_east")
             west == ActiveCommand(rows, t, "shades_west")
             fan == ActiveCommand(rows, t, "fan")
         IN [st EXCEPT !.shades_east = IF IsNone(east) THEN @ ELSE Val(east),
                       !.shades_west = IF IsNone(west) THEN @ ELSE Val(west),
                       !.fan_on = IF IsNone(fan) THEN @ ELSE Val(fan) = "on"]

\* ------------------------------------------------------------------------
\* web/app.py: the dashboard's override operations
\* ------------------------------------------------------------------------
\* the actuators the dashboard is used on here (shades_west is handled as
\* shades_east is, by the same statements)
OverrideTargets == {"shades_east", "fan"}

OverrideCommands(actuator) ==
    IF actuator = "fan" THEN {"on", "off"} ELSE {"open", "closed"}

\* duration_minutes, in ticks
OverrideDurations == {1}

\* UPDATE overrides SET cancelled_at = ? WHERE actuator = ? AND cancelled_at IS NULL
\* (the column is only ever tested for NULL, so its timestamp is not kept)
CancelRows(rows, actuator) ==
    {IF r.actuator = actuator /\ IsNone(r.cancelled_at)
     THEN [r EXCEPT !.cancelled_at = Some("set")] ELSE r : r \in rows}

\* POST /api/override: the rows it writes (the relay command it then sends
\* changes the device only, no field the loop reads)
api_set_override ==
    /\ Cardinality(overrides) < MaxOverrides
    /\ \E actuator \in OverrideTargets, duration \in OverrideDurations :
        \E command \in OverrideCommands(actuator) :
            overrides' = CancelRows(overrides, actuator) \cup
                    {[actuator |-> actuator, command |-> command,
                      expires_at |-> IsoFormat(wall_clock + duration),
                      cancelled_at |-> None]}
    /\ UNCHANGED <<wall_clock, sensor_log, pc, cyc>>
    /\ UNCHANGED <<decideVars, retryVars, callVars, threadVars>>

\* DELETE /api/override/<actuator>
api_cancel_override ==
    /\ \E actuator \in OverrideTargets :
        /\ \E r \in overrides : r.actuator = actuator /\ IsNone(r.cancelled_at)
        /\ overrides' = CancelRows(overrides, actuator)
    /\ UNCHANGED <<wall_clock, sensor_log, pc, cyc>>
    /\ UNCHANGED <<decideVars, retryVars, callVars, threadVars>>

\* ------------------------------------------------------------------------
\* controller.py: execute()
\* ------------------------------------------------------------------------
StateField(st, actuator) ==
    IF actuator = "shades_east" THEN st.shades_east
    ELSE IF actuator = "shades_west" THEN st.shades_west
    ELSE st.fan_on

\* the actuators execute() sends a device command to
Commanded(decisions, st) ==
    {a \in DOMAIN decisions \ {"hvac"} : decisions[a] # StateField(st, a)}

\* the keys of a decisions dictionary in the order decide() inserts them,
\* which is the order execute() iterates in
DecisionOrder == <<"shades_east", "shades_west", "fan", "hvac">>

\* SetField when the assignment after the device command is missing
SetFieldForgotten(st, actuator, desired) == st

\* state.<field> = desired
SetField(st, actuator, desired) ==
    IF actuator = "shades_east" THEN [st EXCEPT !.shades_east = desired]
    ELSE IF actuator = "shades_west" THEN [st EXCEPT !.shades_west = desired]
    ELSE [st EXCEPT !.fan_on = desired]

\* CommandCaught with no try/except around one item
CommandCaughtNever(actuator) == FALSE

\* whether the except clause inside the for loop catches what a device
\* command raises
CommandCaught(actuator) == TRUE

\* the hvac branch with a device behind it
HvacApplied(st, desired) == [st EXCEPT !.hvac_mode = desired]

\* the hvac branch: the decision is logged only
HvacStub(st, desired) == st

\* execute() before its first item: the state, the device commands
\* attempted so far, whether an exception has left the for loop
NewRun(st) == [state |-> st, attempted |-> {}, raised |-> FALSE]

\* ExecuteItem with the assignment placed before the device command
ExecuteItemAssignFirst(run, actuator, decisions, failing) ==
    IF run.raised \/ actuator \notin DOMAIN decisions THEN run
    ELSE IF actuator = "hvac"
    THEN [run EXCEPT !.state = HvacStub(@, decisions[actuator])]
    ELSE IF decisions[actuator] = StateField(run.state, actuator) THEN run
    ELSE [run EXCEPT !.attempted = @ \cup {actuator},
                     !.state = SetField(@, actuator, decisions[actuator]),
                     !.raised = actuator \in failing /\ ~CommandCaught(actuator)]

\* one iteration of the for loop; failing is the set of actuators whose
\* device command raises
ExecuteItem(run, actuator, decisions, failing) ==
    IF run.raised \/ actuator \notin DOMAIN decisions THEN run
    ELSE IF actuator = "hvac"
    THEN [run EXCEPT !.state = HvacStub(@, decisions[actuator])]
    ELSE IF decisions[actuator] = StateField(run.state, actuator) THEN run
    ELSE IF actuator \in failing
    THEN [run EXCEPT !.attempted = @ \cup {actuator},
                     !.raised = ~CommandCaught(actuator)]
    ELSE [run EXCEPT !.attempted = @ \cup {actuator},
                     !.state = SetField(@, actuator, decisions[actuator])]

RECURSIVE ExecuteFrom(_, _, _, _)
ExecuteFrom(run, keys, decisions, failing) ==
    IF keys = <<>> THEN run
    ELSE ExecuteFrom(ExecuteItem(run, Head(keys), decisions, failing),
                     Tail(keys), decisions, failing)

\* a whole call of execute()
ExecuteRun(decisions, st, failing) ==
    ExecuteFrom(NewRun(st), DecisionOrder, decisions, failing)

\* the state after execute(); failing is the set of commands that raise
execute(decisions, st, failing) ==
    ExecuteRun(decisions, st, failing).state

\* ------------------------------------------------------------------------
\* execute() on its own: every decisions dictionary, actuator state and set
\* of failing device commands
\* ------------------------------------------------------------------------
ShadeChoices == {None, Some("open"), Some("closed")}
FanChoices == {None, Some(TRUE), Some(FALSE)}
HvacModes == {"off", "heat", "cool"}
HvacChoices == {None} \cup {Some(m) : m \in HvacModes}

\* the dictionary with the keys whose choice is not None
MakeDecisions(east, west, fan, hvac) ==
    LET choice == [a \in Actuators |->
                     IF a = "shades_east" THEN east
                     ELSE IF a = "shades_west" THEN west
                     ELSE IF a = "fan" THEN fan ELSE hvac]
    IN [a \in {k \in Actuators : ~IsNone(choice[k])} |-> Val(choice[a])]

ExecuteStates ==
    {[NewState EXCEPT !.shades_east = e, !.shades_west = w, !.fan_on = f, !.hvac_mode = h] :
        e \in {"open", "closed"}, w \in {"open", "closed"}, f \in BOOLEAN, h \in HvacModes}

InitExecute ==
    /\ IdleThreads
    /\ IdleDecide
    /\ IdleRetry
    /\ IdleLoop
    /\ \E east \in ShadeChoices, west \in ShadeChoices, fan \in FanChoices, hvac \in HvacChoices :
        \E st \in ExecuteStates, failing \in SUBSET (Actuators \ {"hvac"}) :
            x_in = [decisions |-> MakeDecisions(east, west, fan, hvac),
                    state |-> st, failing |-> failing]
    /\ x_out = <<>>
    /\ x_pc = "call"
    /\ x_clock = 0

CallExecute ==
    /\ x_pc = "call"
    /\ x_out' = ExecuteRun(x_in.decisions, x_in.state, x_in.failing)
    /\ x_pc' = "done"
    /\ UNCHANGED <<x_in, x_clock>>
    /\ UNCHANGED <<decideVars, retryVars, loopVars, threadVars>>

NextExecute == CallExecute

SpecExecute == InitExecute /\ [][NextExecute]_vars

\* ------------------------------------------------------------------------
\* main.py: the control loop, one action per phase of a cycle
\* ------------------------------------------------------------------------
LoopIndoorTemps == {None, Some(DEFAULT_COOL_SP + 1)}
LoopOutdoorTemps == {Some(DEFAULT_COOL_SP - 10), Some(DEFAULT_COOL_SP)}

\* what thermal_model.predict returns for the two runs of a cycle
LoopTrajectories(st) ==
    {<<Some(<<InitialSample(st), c>>), Some(<<InitialSample(st), c + 1>>)>> :
        c \in {DEFAULT_COOL_SP, DEFAULT_COOL_SP + 1}}

\* the is_day/time arrays of the forecast and the minute of the poll
LoopForecasts == {[is_day |-> d, time |-> <<0, 60, 120>>] : d \in {<<1, 1, 1>>, <<1, 0, 0>>}}

LoopClocks == {30}

\* logger.get_last_actuator_state(): the last row, or None
get_last_actuator_state(log, query_ok) ==
    IF query_ok THEN log ELSE None

\* step 1b: the actuator fields of the fresh state are set from the last row
restore(fresh, last_act) ==
    IF IsNone(last_act) THEN fresh
    ELSE [fresh EXCEPT !.shades_east = Val(last_act).shades_east,
                       !.shades_west = Val(last_act).shades_west,
                       !.fan_on = Val(last_act).fan_on,
                       !.hvac_mode = Val(last_act).hvac_mode]

\* steps 1 and 1b: the states read_all_sensors and the restore can produce
ReadStates(log) ==
    {restore([NewState EXCEPT !.indoor_temp = indoor, !.outdoor_temp = outdoor],
             get_last_actuator_state(log, query_ok)) :
        indoor \in LoopIndoorTemps, outdoor \in LoopOutdoorTemps, query_ok \in BOOLEAN}

\* the overrides that are in force at instant t: not cancelled, not expired
LiveOverrides(rows, t) ==
    {r \in rows : IsNone(r.cancelled_at) /\ InstantOf(r.expires_at) > t}

\* the same, as the pairs of actuator and commanded value
LiveCommands(rows, t) ==
    {[actuator |-> r.actuator, command |-> r.command] : r \in LiveOverrides(rows, t)}

\* the actuator fields log_sensors writes
RowOf(st) ==
    [shades_east |-> st.shades_east, shades_west |-> st.shades_west,
     fan_on |-> st.fan_on, hvac_mode |-> st.hvac_mode]

\* step 5, logger.log_sensors(state): the table's last row afterwards;
\* when the insert raises, the handler at the top of the loop logs it
log_sensors(log, st, insert_ok) ==
    IF insert_ok THEN Some(RowOf(st)) ELSE log

\* AfterCycle with no except clause around the cycle
AfterCycleUncaught(raised) ==
    IF raised THEN "crashed" ELSE "sleep"

\* where main() is after the body of an iteration; raised tells whether
\* the body raised (the except clause logs it and falls through)
AfterCycle(raised) == "sleep"

\* The loop reads the overrides table once in a cycle and the dashboard
\* reads nothing the loop writes, so a cycle is one step.

\* a cycle that has no forecast or no indoor temperature: the controller
\* block is not entered
CycleWithoutController ==
    /\ pc = "start"
    /\ \E st \in ReadStates(sensor_log), have_forecast \in BOOLEAN, insert_ok \in BOOLEAN :
        /\ ~have_forecast \/ IsNone(st.indoor_temp)
        /\ sensor_log' = log_sensors(sensor_log, st, insert_ok)
        /\ cyc' = [cyc EXCEPT !.live = LiveCommands(overrides, wall_clock),
                              !.persisted = insert_ok]
    /\ pc' = AfterCycle(~cyc'.persisted)
    /\ UNCHANGED <<wall_clock, overrides>>
    /\ UNCHANGED <<decideVars, retryVars, callVars, threadVars>>

\* a full cycle: read and restore, forecast, two predictions, get_setpoints,
\* get_active_overrides, decide, execute, log_sensors
CycleWithController ==
    /\ pc = "start"
    /\ \E query_ok \in BOOLEAN, insert_ok \in BOOLEAN :
        \E st \in {r \in ReadStates(sensor_log) : ~IsNone(r.indoor_temp)} :
            \E fc \in LoopForecasts, minute \in LoopClocks, traj \in LoopTrajectories(st) :
                LET overridden == get_active_overrides(overrides, wall_clock, query_ok)
                    decisions == decide(st, traj[1], traj[2], DEFAULT_HEAT_SP,
                                        DEFAULT_COOL_SP, overridden, Some(fc), minute)
                IN \E failing \in SUBSET Commanded(decisions, st) :
                    /\ sensor_log' = log_sensors(sensor_log, execute(decisions, st, failing),
                                                 insert_ok)
                    /\ cyc' = [cyc EXCEPT !.ran = TRUE,
                                          !.overridden = overridden,
                                          !.live = LiveCommands(overrides, wall_clock),
                                          !.commands = Commanded(decisions, st),
                                          !.persisted = insert_ok]
    /\ pc' = AfterCycle(~cyc'.persisted)
    /\ UNCHANGED <<wall_clock, overrides>>
    /\ UNCHANGED <<decideVars, retryVars, callVars, threadVars>>

\* time.sleep(sleep_time): the next cycle starts, with the locals of
\* this one gone
Sleep ==
    /\ pc = "sleep"
    /\ pc' = "start"
    /\ cyc' = NewCycle
    /\ UNCHANGED <<wall_clock, overrides, sensor_log>>
    /\ UNCHANGED <<decideVars, retryVars, callVars, threadVars>>

\* the wall clock advances between two cycles
Tick ==
    /\ pc = "start"
    /\ wall_clock < MaxTime
    /\ wall_clock' = wall_clock + 1
    /\ UNCHANGED <<overrides, sensor_log, pc, cyc>>
    /\ UNCHANGED <<decideVars, retryVars, callVars, threadVars>>

InitLoop ==
    /\ IdleThreads
    /\ IdleDecide
    /\ IdleRetry
    /\ IdleLoop
    /\ IdleCall

NextLoop ==
    \/ CycleWithoutController
    \/ CycleWithController
    \/ Sleep
    \/ Tick
    \/ api_set_override
    \/ api_cancel_override

SpecLoop == InitLoop /\ [][NextLoop]_vars

\* The loop on its own, over a table the dashboard has left behind: no row,
\* or one override made at tick 0.
LeftTables ==
    {{}} \cup
    {{[actuator |-> a, command |-> c, expires_at |-> IsoFormat(d), cancelled_at |-> None]} :
        a \in OverrideTargets, c \in {"on", "closed"}, d \in OverrideDurations}

InitLoopAlone ==
    /\ IdleThreads
    /\ IdleDecide
    /\ IdleRetry
    /\ IdleCall
    /\ wall_clock = 0
    /\ overrides \in {t \in LeftTables : \A r \in t : r.command \in OverrideCommands(r.actuator)}
    /\ sensor_log = None
    /\ pc = "start"
    /\ cyc = NewCycle

NextLoopAlone ==
    \/ CycleWithoutController
    \/ CycleWithController
    \/ Sleep
    \/ Tick

\* main() is one thread that nothing stops: an enabled cycle runs and
\* time.sleep returns
SpecLoopAlone ==
    /\ InitLoopAlone
    /\ [][NextLoopAlone]_vars
    /\ WF_vars(CycleWithoutController \/ CycleWithController)
    /\ WF_vars(Sleep)

\* ------------------------------------------------------------------------
\* forecast.py: apply_bias_correction.  A forecast is the dictionary of
\* fetch_forecast: hourly arrays aligned by index, an entry being a number
\* or None; hours are whole numbers.
\* ------------------------------------------------------------------------
Channels == {"temperature_f", "humidity", "solar_irradiance_wm2", "wind_speed_mph"}

\* the fields clamped at zero after the shift
ClampedChannels == {"solar_irradiance_wm2", "humidity", "wind_speed_mph"}

\* the key of the station reading a forecast channel is compared with
StationKey(channel) ==
    IF channel = "temperature_f" THEN "outdoor_temp_f"
    ELSE IF channel = "humidity" THEN "outdoor_humidity"
    ELSE channel

Max2(a, b) == IF a >= b THEN a ELSE b

\* IndexOf that takes the first entry when the hour is not in the array
IndexOfOrFirst(time, hour) ==
    IF \E i \in 1..Len(time) : time[i] = hour
    THEN Some(CHOOSE i \in 1..Len(time) :
                /\ time[i] = hour
                /\ \A j \in 1..(i - 1) : time[j] # hour)
    ELSE Some(1)

\* forecast["time"].index(current_hour): the first position, or None for
\* the ValueError
IndexOf(time, hour) ==
    IF \E i \in 1..Len(time) : time[i] = hour
    THEN Some(CHOOSE i \in 1..Len(time) :
                /\ time[i] = hour
                /\ \A j \in 1..(i - 1) : time[j] # hour)
    ELSE None

\* DeltaOf that forgets the forecast's value
DeltaIgnoringForecast(actual, predicted) == actual

\* actual - forecast at the current hour
DeltaOf(actual, predicted) == actual - predicted

\* the channels that get a delta, with their delta
Deltas(forecast, station_reading, idx) ==
    [c \in {k \in Channels : /\ ~IsNone(station_reading[StationKey(k)])
                              /\ ~IsNone(forecast[k][idx])} |->
        DeltaOf(Val(station_reading[StationKey(c)]), Val(forecast[c][idx]))]

\* Clamp that clamps no field
ClampNothing(channel, v) == v

\* max(0, v) for the non-negative fields
Clamp(channel, v) ==
    IF channel \in ClampedChannels THEN Max2(0, v) ELSE v

\* FirstShifted that leaves the current hour's entry alone
FirstShiftedAfter(idx) == idx + 1

\* range(idx, len(...)) starts at the current hour
FirstShifted(idx) == idx

\* one entry of a shifted channel
ShiftEntry(channel, entry, delta) ==
    IF IsNone(entry) THEN entry ELSE Some(Clamp(channel, Val(entry) + delta))

apply_bias_correction(forecast, station_reading, current_hour) ==
    LET found == IndexOf(forecast.time, current_hour)
    IN IF IsNone(found) THEN forecast
       ELSE LET deltas == Deltas(forecast, station_reading, Val(found))
            IN [k \in DOMAIN forecast |->
                    IF k \in DOMAIN deltas
                    THEN [i \in 1..Len(forecast[k]) |->
                            IF i >= FirstShifted(Val(found))
                            THEN ShiftEntry(k, forecast[k][i], deltas[k])
                            ELSE forecast[k][i]]
                    ELSE forecast[k]]

\* main.py get_corrected_forecast: (raw, corrected); raw is None when no
\* forecast was fetched or cached, station_reading is None when the station
\* gave nothing
get_corrected_forecast(raw, station_reading, current_hour) ==
    IF IsNone(raw) THEN <<None, None>>
    ELSE IF ~IsNone(station_reading)
    THEN <<raw, Some(apply_bias_correction(Val(raw), Val(station_reading), current_hour))>>
    ELSE <<raw, raw>>

\* main.py: the condition under which steps 4 and 4b simulate and decide
RunsController(corrected_forecast, indoor_temp) ==
    ~IsNone(corrected_forecast) /\ ~IsNone(indoor_temp)

\* ------------------------------------------------------------------------
\* apply_bias_correction on its own: every bounded forecast, station
\* reading and current hour
\* ------------------------------------------------------------------------
TempEntries == {None, Some(0), Some(4)}
NonNegEntries == {Some(0), Some(4)}

\* wind arrays: steady, or dropping to calm in the last hour
WindSeries(n) ==
    {[i \in 1..n |-> Some(4)], [i \in 1..n |-> IF i = n THEN Some(0) ELSE Some(4)]}

\* the forecasts of n hours, beginning at hour 1
ForecastsOf(n) ==
    {[time |-> [i \in 1..n |-> i],
      temperature_f |-> t, humidity |-> h, solar_irradiance_wm2 |-> g,
      wind_speed_mph |-> w,
      weather_code |-> [i \in 1..n |-> Some(0)],
      is_day |-> [i \in 1..n |-> Some(1)]] :
        t \in [1..n -> TempEntries], h \in [1..n -> NonNegEntries],
        g \in [1..n -> NonNegEntries], w \in WindSeries(n)}

RawForecasts == UNION {ForecastsOf(n) : n \in 1..MaxHours}

StationReadings ==
    {[outdoor_temp_f |-> t, outdoor_humidity |-> h,
      solar_irradiance_wm2 |-> g, wind_speed_mph |-> w] :
        t \in TempEntries, h \in {None, Some(0), Some(4)},
        g \in {None, Some(0)}, w \in {None, Some(0), Some(4)}}

\* hour 0 is before every forecast, hour MaxHours after the shorter ones
CurrentHours == 0..MaxHours

InitBias ==
    /\ IdleThreads
    /\ IdleDecide
    /\ IdleRetry
    /\ IdleLoop
    /\ \E forecast \in RawForecasts, station_reading \in StationReadings :
        \E current_hour \in CurrentHours :
            x_in = [forecast |-> forecast, station_reading |-> station_reading,
                    current_hour |-> current_hour]
    /\ x_out = <<>>
    /\ x_pc = "call"
    /\ x_clock = 0

CallBias ==
    /\ x_pc = "call"
    /\ x_out' = apply_bias_correction(x_in.forecast, x_in.station_reading,
                                       x_in.current_hour)
    /\ x_pc' = "done"
    /\ UNCHANGED <<x_in, x_clock>>
    /\ UNCHANGED <<decideVars, retryVars, loopVars, threadVars>>

NextBias == CallBias

SpecBias == InitBias /\ [][NextBias]_vars

\* ------------------------------------------------------------------------
\* Specification of the sunset test as a function of forecast and clock
\* ------------------------------------------------------------------------
\* Open-Meteo's hourly time array in minutes: 0, 60, 120, ...
HourlyTimes(n) == [i \in 1..n |-> 60 * (i - 1)]

\* forecasts with every is_day array of up to MaxDayFlags hourly flags
SunsetForecasts ==
    {None} \cup {Some([is_day |-> d, time |-> HourlyTimes(Len(d))]) :
                    d \in SeqsUpTo({0, 1}, MaxDayFlags)}

\* datetime.now(): on the hour and at half past, over the array's span
SunsetClocks == {30 * k : k \in 0..(2 * MaxDayFlags)}

InitSunset ==
    /\ IdleThreads
    /\ IdleDecide
    /\ IdleRetry
    /\ IdleLoop
    /\ \E fc \in SunsetForecasts, clock \in SunsetClocks :
          x_in = [corrected_forecast |-> fc, now |-> clock]
    /\ x_out = <<>>
    /\ x_pc = "call"
    /\ x_clock = 0

CallSunset ==
    /\ x_pc = "call"
    /\ x_out' = [mins |-> _minutes_to_sunset(x_in.corrected_forecast, x_in.now),
                 near |-> _is_near_sunset(x_in.corrected_forecast, x_in.now)]
    /\ x_pc' = "done"
    /\ UNCHANGED <<x_in, x_clock>>
    /\ UNCHANGED <<decideVars, retryVars, loopVars, threadVars>>

NextSunset == CallSunset

SpecSunset == InitSunset /\ [][NextSunset]_vars

\* ------------------------------------------------------------------------
\* config.py: thermal parameters, as whole numbers
\* ------------------------------------------------------------------------
\* areas in 1/100 m2, transmittance and solar fraction in 1/100, the U-value,
\* envelope and wall areas and the wall factor in 1/10, the fan flow in
\* 1/1000 m3/s, capacities in J/K, the coupling in W/K
G ==
    [floor_area_m2 |-> 3974,
     cover_transmittance |-> 82,
     envelope_U_W_per_m2K |-> 58,
     envelope_area_m2 |-> 1047,
     north_wall_area_m2 |-> 142,
     north_wall_U_factor |-> 5,
     air_heat_capacity_J_per_K |-> 151200,
     mass_heat_capacity_J_per_K |-> 10000000,
     mass_solar_fraction |-> 40,
     ground_coupling_W_per_K |-> 150,
     fan_flow_m3_per_s |-> 944]

\* roof face areas in 1/100 m2
ROOF_EAST_AREA_M2 == 2480
ROOF_WEST_AREA_M2 == 2480

\* Euler integration step in seconds
MODEL_STEP_SECONDS == 60

\* ------------------------------------------------------------------------
\* thermal_model.py
\* Floating-point values are fixed-point numbers here.  With
\* steps_per_hour = 60: hourly forecast values and state.indoor_temp are
\* whole degrees F; interpolated Fahrenheit values count 1/60 F; Celsius
\* values count 1/1080 C (a tick); the Fahrenheit values of the returned
\* series count 1/600 F, which is the size of a tick.  Products are divided
\* early enough to stay inside 32 bits.
\* ------------------------------------------------------------------------
steps_per_hour == 3600 \div MODEL_STEP_SECONDS

\* ticks in one kelvin
TicksPerK == 18 * steps_per_hour

\* division that truncates toward zero
Quot(a, b) == IF a >= 0 THEN a \div b ELSE -((-a) \div b)

\* (f - 32) * 5 / 9, from 1/60 F to ticks
_f_to_c(f) == ((f - 32 * steps_per_hour) * 5 * 18) \div 9

\* c * 9 / 5 + 32, from ticks to 1/600 F
_c_to_f(c) == (c * 9 * 10) \div (5 * 18) + 32 * 10 * steps_per_hour

\* round(x, 1): the nearest tenth of a degree, in 1/600 F
Round1(x) == ((x + steps_per_hour \div 2) \div steps_per_hour) * steps_per_hour

\* Python's "x or d": None and 0 both give d
OrDefault(x, d) == IF IsNone(x) \/ Val(x) = 0 THEN d ELSE Val(x)

\* "x if x is not None else d"
IfNone(x, d) == IF IsNone(x) THEN d ELSE Val(x)

\* a + (b - a) * t for t = k / steps_per_hour, in 1/60 of the unit of a, b
_lerp(a, b, k) ==
    IfNone(a, 0) * steps_per_hour + (IfNone(b, 0) - IfNone(a, 0)) * k

\* hours between the forecast's first timestamp and the clock
HourOffset(forecast, now) ==
    IF forecast.time = <<>> THEN 0
    ELSE Max2(0, (now - forecast.time[1]) \div 60)

\* HourlyValue that takes a last entry of 0 as a reading, not as missing
HourlyValueZeroKept(hourly, n_hourly, i, hour_offset, missing) ==
    LET hour_idx == i \div steps_per_hour + hour_offset
        k == i % steps_per_hour
    IN IF hour_idx + 1 < n_hourly
       THEN _lerp(hourly[hour_idx + 1], hourly[hour_idx + 2], k)
       ELSE IF hour_idx < n_hourly
       THEN IfNone(hourly[hour_idx + 1], missing) * steps_per_hour
       ELSE IF hourly # <<>>
       THEN IfNone(hourly[Len(hourly)], missing) * steps_per_hour
       ELSE missing * steps_per_hour

\* the value of one hourly array at step i (0-based), in 1/60 of its unit:
\* interpolated, the last entry "or" the default, or the held last entry
HourlyValue(hourly, n_hourly, i, hour_offset, missing) ==
    LET hour_idx == i \div steps_per_hour + hour_offset
        k == i % steps_per_hour
    IN IF hour_idx + 1 < n_hourly
       THEN _lerp(hourly[hour_idx + 1], hourly[hour_idx + 2], k)
       ELSE IF hour_idx < n_hourly
       THEN OrDefault(hourly[hour_idx + 1], missing) * steps_per_hour
       ELSE IF hourly # <<>>
       THEN IfNone(hourly[Len(hourly)], missing) * steps_per_hour
       ELSE missing * steps_per_hour

\* outdoor temperature in ticks and solar irradiance in whole W/m2 for each
\* step; the wind values it also returns are not read by predict
_interpolate_forecast(forecast, steps, now) ==
    LET n_hourly == Len(forecast.temperature_f)
        hour_offset == HourOffset(forecast, now)
    IN [outdoor_temps_c |->
            [j \in 1..steps |->
                _f_to_c(HourlyValue(forecast.temperature_f, n_hourly, j - 1,
                                    hour_offset, 70))],
        solar_vals |->
            [j \in 1..steps |->
                Max2(0, HourlyValue(forecast.solar_irradiance_wm2, n_hourly, j - 1,
                                    hour_offset, 0)) \div steps_per_hour]]

\* envelope conductance in W/K: outdoor surfaces and the buffered north wall
UA_total ==
    (G.envelope_U_W_per_m2K * G.envelope_area_m2 * 10
     + G.envelope_U_W_per_m2K * G.north_wall_area_m2 * G.north_wall_U_factor)
        \div 1000

\* rho_cp * fan_flow in W/K
FanConductance(fan_on) ==
    IF fan_on THEN (12 * 1006 * G.fan_flow_m3_per_s) \div 10000 ELSE 0

\* Q_hvac in W
HvacPower(hvac_mode) ==
    IF hvac_mode = "heat" THEN HVAC_CAPACITY_W
    ELSE IF hvac_mode = "cool" THEN -HVAC_CAPACITY_W
    ELSE 0

\* Q_solar in W through roof and walls for irradiance I_solar
SolarGain(I_solar, shade_east, shade_west) ==
    LET roof == ROOF_EAST_AREA_M2 + ROOF_WEST_AREA_M2
        through == (I_solar * G.cover_transmittance * G.floor_area_m2) \div 10000
        roof_solar ==
            (((through * roof) \div (roof + G.floor_area_m2))
             * (ROOF_EAST_AREA_M2 * (1 - shade_east)
                + ROOF_WEST_AREA_M2 * (1 - shade_west))) \div roof
        wall_solar == (through * G.floor_area_m2) \div (roof + G.floor_area_m2)
    IN roof_solar + wall_solar

\* the terms of one Euler step of the two nodes; T is [air, mass] in ticks,
\* heat flows are in W times ticks per kelvin.  Q_ground is the coupling
\* term of the air balance, coupling the one of the mass balance
EulerTerms(T, T_out, I_solar, run) ==
    LET Q_solar == SolarGain(I_solar, run.shade_east, run.shade_west)
        Q_solar_air == (Q_solar * (100 - G.mass_solar_fraction)) \div 100
        Q_solar_mass == (Q_solar * G.mass_solar_fraction) \div 100
        Q_envelope == UA_total * (T.air - T_out)
        Q_vent == run.fan_conductance * (T.air - T_out)
        Q_ground == G.ground_coupling_W_per_K * (T.air - T.mass)
        dT_air == Quot(Q_solar_air * TicksPerK - Q_envelope - Q_vent - Q_ground
                       + run.Q_hvac * TicksPerK,
                       G.air_heat_capacity_J_per_K \div MODEL_STEP_SECONDS)
        T_air == T.air + dT_air
        coupling == G.ground_coupling_W_per_K * (T_air - T.mass)
        dT_mass == Quot(Q_solar_mass * TicksPerK + coupling,
                        G.mass_heat_capacity_J_per_K \div MODEL_STEP_SECONDS)
    IN [air |-> T_air, mass |-> T.mass + dT_mass,
        Q_ground |-> Q_ground, coupling |-> coupling]

\* one Euler step of the two nodes: the temperatures after it
EulerStep(T, T_out, I_solar, run) ==
    LET after == EulerTerms(T, T_out, I_solar, run)
    IN [air |-> after.air, mass |-> after.mass]

\* the loop of predict from step i (0-based) on; the series holds the
\* initial sample and one sample for every step done
RECURSIVE Integrate(_, _, _, _, _)
Integrate(T, series, i, outdoor, run) ==
    IF i = Len(outdoor.outdoor_temps_c) THEN series
    ELSE LET next == EulerStep(T, outdoor.outdoor_temps_c[i + 1],
                               outdoor.solar_vals[i + 1], run)
             grown == [air_temp_f |-> Append(series.air_temp_f, Round1(_c_to_f(next.air))),
                       mass_temp_f |-> Append(series.mass_temp_f, Round1(_c_to_f(next.mass)))]
         IN IF Len(grown.air_temp_f) = i + 2
            THEN Integrate(next, grown, i + 1, outdoor, run)
            ELSE grown

\* predict with the clock reading of its _interpolate_forecast call; the
\* times and params entries of the result are left out
predict(state, forecast, horizon_hours, now) ==
    LET steps == (horizon_hours * 3600) \div MODEL_STEP_SECONDS
        T_air == IF IsNone(state.indoor_temp) THEN 20 * TicksPerK
                 ELSE _f_to_c(Val(state.indoor_temp) * steps_per_hour)
        run == [shade_east |-> IF state.shades_east = "closed" THEN 1 ELSE 0,
                shade_west |-> IF state.shades_west = "closed" THEN 1 ELSE 0,
                fan_conductance |-> FanConductance(state.fan_on),
                Q_hvac |-> HvacPower(state.hvac_mode)]
    IN Integrate([air |-> T_air, mass |-> T_air],
                 [air_temp_f |-> <<_c_to_f(T_air)>>,
                  mass_temp_f |-> <<_c_to_f(T_air)>>],
                 0, _interpolate_forecast(forecast, steps, now), run)


\* ------------------------------------------------------------------------
\* Specification of the two simulator runs of one cycle (main.py, steps 4
\* and 4b): predict with the current state, then with the shades forced
\* open.  Each run reads the clock for itself.
\* ------------------------------------------------------------------------
\* hourly temperatures: freezing cold, mild
SimTemps == {0, 70}

\* the fields of GreenhouseState that predict reads; main() runs the
\* simulator only with a known indoor temperature
SimStates ==
    [indoor_temp : {Some(t) : t \in SimTemps},
     shades_east : {"open", "closed"},
     shades_west : {"open"},
     fan_on : BOOLEAN,
     hvac_mode : {"off", "heat"}]

\* an hourly array that holds v in every entry
Flat(n, v) == [i \in 1..n |-> v]

\* temperature arrays: missing, flat, or rising by 10 F an hour
SimTempSeries(n) ==
    {Flat(n, None)} \cup {Flat(n, Some(t)) : t \in SimTemps}
        \cup {[i \in 1..n |-> Some(70 + 10 * (i - 1))]}

\* irradiance arrays: missing, night, sun
SimSolarSeries(n) == {Flat(n, None), Flat(n, Some(0)), Flat(n, Some(400))}

SimForecastsOf(n) ==
    {[time |-> HourlyTimes(n), temperature_f |-> t, solar_irradiance_wm2 |-> q] :
        t \in SimTempSeries(n), q \in SimSolarSeries(n)}

SimForecasts == UNION {SimForecastsOf(n) : n \in 0..MaxSimHours}

\* clock readings: on the hour and one minute before it
SimClocks ==
    {60 * h : h \in 0..MaxSimHours} \cup {60 * h - 1 : h \in 1..MaxSimHours}

\* state_open of main(): a copy with both shades open
ShadesOpen(state) ==
    [state EXCEPT !.shades_east = "open", !.shades_west = "open"]

InitPredict ==
    /\ IdleThreads
    /\ IdleDecide
    /\ IdleRetry
    /\ IdleLoop
    /\ \E st \in SimStates, fc \in SimForecasts :
          x_in = [state |-> st, forecast |-> fc]
    /\ x_clock \in SimClocks
    /\ x_out = <<>>
    /\ x_pc = "call"

\* trajectory = thermal_model.predict(state, corrected_forecast)
PredictCurrent ==
    /\ x_pc = "call"
    /\ x_out' = [trajectory |-> predict(x_in.state, x_in.forecast, MaxHorizonHours, x_clock),
                 hour_offset |-> HourOffset(x_in.forecast, x_clock)]
    /\ x_pc' = "between"
    /\ UNCHANGED <<x_in, x_clock>>
    /\ UNCHANGED <<decideVars, retryVars, loopVars, threadVars>>

\* a minute of wall-clock time passes between the two runs
MinutePasses ==
    /\ x_pc = "between"
    /\ x_clock' = x_clock + 1
    /\ x_pc' = "later"
    /\ UNCHANGED <<x_in, x_out>>
    /\ UNCHANGED <<decideVars, retryVars, loopVars, threadVars>>

\* trajectory_open = thermal_model.predict(state_open, corrected_forecast)
PredictShadesOpen ==
    /\ x_pc \in {"between", "later"}
    /\ x_out' = [trajectory |-> x_out.trajectory,
                 hour_offset |-> x_out.hour_offset,
                 trajectory_open |-> predict(ShadesOpen(x_in.state), x_in.forecast,
                                             MaxHorizonHours, x_clock),
                 hour_offset_open |-> HourOffset(x_in.forecast, x_clock)]
    /\ x_pc' = "done"
    /\ UNCHANGED <<x_in, x_clock>>
    /\ UNCHANGED <<decideVars, retryVars, loopVars, threadVars>>

NextPredict ==
    \/ PredictCurrent
    \/ MinutePasses
    \/ PredictShadesOpen

SpecPredict == InitPredict /\ [][NextPredict]_vars


\* ------------------------------------------------------------------------
\* devices/shelly_ht.py and the process around it (main.py): the MQTT
\* background thread runs mqtt_on_message for every message, the main
\* thread runs ShellyHT.read, and an interrupt ends the process.
\* ------------------------------------------------------------------------
\* polling interval in seconds; the clock of the threads counts intervals
POLL_INTERVAL_SECONDS == 300

\* maximum age of MQTT data in seconds
MQTT_STALE_THRESHOLD == 600

\* threading.Lock.acquire that never waits
LockIgnored(lock) == TRUE

\* threading.Lock: acquire proceeds only while no thread holds the lock
LockFree(lock) == lock = "free"

\* payloads arriving on the three subscribed topics; "garbage" is a payload
\* json.loads rejects
Messages ==
    {[topic |-> "temperature:0", tF |-> 70, tC |-> 21],
     [topic |-> "temperature:0", tF |-> 80, tC |-> 27],
     [topic |-> "humidity:0", rh |-> 40],
     [topic |-> "devicepower:0", percent |-> 90],
     [topic |-> "garbage"]}

\* d[key] = value on a Python dict
DictSet(d, key, value) ==
    [k \in DOMAIN d \cup {key} |-> IF k = key THEN value ELSE d[k]]

\* d.get(key)
DictGet(d, key) == IF key \in DOMAIN d THEN Some(d[key]) ELSE None

\* the assignments to _mqtt_data of the branch the topic selects
StoreReading(data, msg) ==
    IF msg.topic = "temperature:0"
    THEN DictSet(DictSet(data, "temp_f", msg.tF), "temp_c", msg.tC)
    ELSE IF msg.topic = "humidity:0" THEN DictSet(data, "humidity", msg.rh)
    ELSE DictSet(data, "battery_pct", msg.percent)

\* seconds between two clock readings
SecondsBetween(earlier, later) == (later - earlier) * POLL_INTERVAL_SECONDS

ProcessRuns == main_thread.pc \notin {"off", "exited"}

InitThreads ==
    /\ IdleDecide
    /\ IdleRetry
    /\ IdleLoop
    /\ IdleCall
    /\ ht = NewShellyHT
    /\ listener = [pc |-> "off"]
    /\ main_thread = [pc |-> "setup", mqtt_client |-> None, now |-> 0, known |-> None,
                      result |-> None]
    /\ proc = [mqtt_client |-> None, _conn |-> None]
    /\ ht_clock = 0
    /\ heard = None

\* main(): setup_mqtt returns a client whose loop thread runs, or None when
\* no broker is configured or connect raises; log_startup opens the database
SetupMqtt ==
    /\ main_thread.pc = "setup"
    /\ \E started \in BOOLEAN :
          /\ listener' = [pc |-> IF started THEN "idle" ELSE "off"]
          /\ main_thread' = [main_thread EXCEPT
                                !.pc = "idle",
                                !.mqtt_client = IF started THEN Some("client") ELSE None]
    /\ proc' = [proc EXCEPT !._conn = Some("open")]
    /\ UNCHANGED <<ht, ht_clock, heard>>
    /\ UNCHANGED <<decideVars, retryVars, loopVars, callVars>>

\* the broker delivers a message: on_message calls mqtt_on_message
MessageArrives ==
    /\ ProcessRuns
    /\ listener.pc = "idle"
    /\ \E msg \in Messages :
          listener' = [pc |-> "waiting", msg |-> msg]
    /\ UNCHANGED <<ht, main_thread, proc, ht_clock, heard>>
    /\ UNCHANGED <<decideVars, retryVars, loopVars, callVars>>

\* with self._lock (mqtt_on_message)
ListenerAcquires ==
    /\ ProcessRuns
    /\ listener.pc = "waiting"
    /\ LockFree(ht._lock)
    /\ ht' = [ht EXCEPT !._lock = "listener"]
    /\ listener' = [pc |-> "locked", msg |-> listener.msg,
                    before |-> [_mqtt_data |-> ht._mqtt_data,
                                _mqtt_last_update |-> ht._mqtt_last_update]]
    /\ UNCHANGED <<main_thread, proc, ht_clock, heard>>
    /\ UNCHANGED <<decideVars, retryVars, loopVars, callVars>>

\* json.loads: a rejected payload returns from inside the with block
ListenerParses ==
    /\ ProcessRuns
    /\ listener.pc = "locked"
    /\ listener' = [listener EXCEPT
                        !.pc = IF listener.msg.topic = "garbage"
                               THEN "rejected" ELSE "parsed"]
    /\ UNCHANGED <<ht, main_thread, proc, ht_clock, heard>>
    /\ UNCHANGED <<decideVars, retryVars, loopVars, callVars>>

\* self._mqtt_data[...] = ...
ListenerStores ==
    /\ ProcessRuns
    /\ listener.pc = "parsed"
    /\ ht' = [ht EXCEPT !._mqtt_data = StoreReading(ht._mqtt_data, listener.msg)]
    /\ listener' = [listener EXCEPT !.pc = "stored"]
    /\ UNCHANGED <<main_thread, proc, ht_clock, heard>>
    /\ UNCHANGED <<decideVars, retryVars, loopVars, callVars>>

\* self._mqtt_last_update = datetime.now(), the time the message counts
\* as received
ListenerStamps ==
    /\ ProcessRuns
    /\ listener.pc = "stored"
    /\ ht' = [ht EXCEPT !._mqtt_last_update = Some(ht_clock)]
    /\ listener' = [listener EXCEPT !.pc = "stamped"]
    /\ heard' = IF listener.msg.topic = "temperature:0"
                THEN Some([temp_f |-> listener.msg.tF, at |-> ht_clock])
                ELSE heard
    /\ UNCHANGED <<main_thread, proc, ht_clock>>
    /\ UNCHANGED <<decideVars, retryVars, loopVars, callVars>>

\* the end of the with block
ListenerReleases ==
    /\ ProcessRuns
    /\ listener.pc \in {"stamped", "rejected"}
    /\ ht' = [ht EXCEPT !._lock = "free"]
    /\ listener' = [pc |-> "idle"]
    /\ UNCHANGED <<main_thread, proc, ht_clock, heard>>
    /\ UNCHANGED <<decideVars, retryVars, loopVars, callVars>>

\* the main loop calls shelly_ht.read()
ReadStarts ==
    /\ main_thread.pc = "idle"
    /\ main_thread' = [main_thread EXCEPT !.pc = "waiting", !.result = None]
    /\ UNCHANGED <<ht, listener, proc, ht_clock, heard>>
    /\ UNCHANGED <<decideVars, retryVars, loopVars, callVars>>

\* with self._lock (read)
ReaderAcquires ==
    /\ main_thread.pc = "waiting"
    /\ LockFree(ht._lock)
    /\ ht' = [ht EXCEPT !._lock = "main"]
    /\ main_thread' = [main_thread EXCEPT !.pc = "locked"]
    /\ UNCHANGED <<listener, proc, ht_clock, heard>>
    /\ UNCHANGED <<decideVars, retryVars, loopVars, callVars>>

\* the tests of _mqtt_last_update, its age against datetime.now() and
\* "temp_f" in _mqtt_data; a failed test leaves the with block for the
\* cloud read
ReaderChecks ==
    /\ main_thread.pc = "locked"
    /\ IF /\ ~IsNone(ht._mqtt_last_update)
          /\ SecondsBetween(Val(ht._mqtt_last_update), ht_clock) < MQTT_STALE_THRESHOLD
          /\ "temp_f" \in DOMAIN ht._mqtt_data
       THEN /\ main_thread' = [main_thread EXCEPT !.pc = "fresh", !.now = ht_clock,
                                                  !.known = heard]
            /\ UNCHANGED ht
       ELSE /\ main_thread' = [main_thread EXCEPT !.pc = "cloud", !.now = ht_clock,
                                                  !.known = heard]
            /\ ht' = [ht EXCEPT !._lock = "free"]
    /\ UNCHANGED <<listener, proc, ht_clock, heard>>
    /\ UNCHANGED <<decideVars, retryVars, loopVars, callVars>>

\* return of the cached values, which ends the with block
ReaderReturnsCache ==
    /\ main_thread.pc = "fresh"
    /\ main_thread' = [main_thread EXCEPT
            !.pc = "idle",
            !.result = Some([source |-> "mqtt",
                             temp_f |-> DictGet(ht._mqtt_data, "temp_f"),
                             humidity |-> DictGet(ht._mqtt_data, "humidity"),
                             battery_pct |-> DictGet(ht._mqtt_data, "battery_pct"),
                             at |-> main_thread.now,
                             heard |-> main_thread.known])]
    /\ ht' = [ht EXCEPT !._lock = "free"]
    /\ UNCHANGED <<listener, proc, ht_clock, heard>>
    /\ UNCHANGED <<decideVars, retryVars, loopVars, callVars>>

\* return self._read_cloud(), which returns the cloud's values or raises
ReaderFallsBack ==
    /\ main_thread.pc = "cloud"
    /\ main_thread' = [main_thread EXCEPT
            !.pc = "idle",
            !.result = Some([source |-> "cloud", at |-> main_thread.now,
                             heard |-> main_thread.known])]
    /\ UNCHANGED <<ht, listener, proc, ht_clock, heard>>
    /\ UNCHANGED <<decideVars, retryVars, loopVars, callVars>>

\* a poll interval of wall-clock time passes
ClockAdvances ==
    /\ ProcessRuns
    /\ ht_clock < MaxCacheClock
    /\ ht_clock' = ht_clock + 1
    /\ UNCHANGED <<ht, listener, main_thread, proc, heard>>
    /\ UNCHANGED <<decideVars, retryVars, loopVars, callVars>>

\* KeyboardInterrupt ends main() between two reads
Interrupt ==
    /\ main_thread.pc = "idle"
    /\ main_thread' = [main_thread EXCEPT !.pc = "finally"]
    /\ UNCHANGED <<ht, listener, proc, ht_clock, heard>>
    /\ UNCHANGED <<decideVars, retryVars, loopVars, callVars>>

\* the finally block of __main__: loop_stop() if the module's mqtt_client
\* is set, then logger.close()
Shutdown ==
    /\ main_thread.pc = "finally"
    /\ listener' = IF ~IsNone(proc.mqtt_client) THEN [pc |-> "stopped"] ELSE listener
    /\ proc' = [proc EXCEPT !._conn = None]
    /\ main_thread' = [main_thread EXCEPT !.pc = "exited"]
    /\ UNCHANGED <<ht, ht_clock, heard>>
    /\ UNCHANGED <<decideVars, retryVars, loopVars, callVars>>

NextThreads ==
    \/ SetupMqtt
    \/ MessageArrives
    \/ ListenerAcquires
    \/ ListenerParses
    \/ ListenerStores
    \/ ListenerStamps
    \/ ListenerReleases
    \/ ReadStarts
    \/ ReaderAcquires
    \/ ReaderChecks
    \/ ReaderReturnsCache
    \/ ReaderFallsBack
    \/ ClockAdvances
    \/ Interrupt
    \/ Shutdown

SpecThreads == InitThreads /\ [][NextThreads]_vars

\* ------------------------------------------------------------------------
\* main.py: one iteration of the while loop, statement by statement, with
\* time.time().  x_in holds the locals of main(), x_out the history of the
\* running cycle and of the one before it, x_clock is time.time() in
\* seconds, sensor_log is the table.
\* ------------------------------------------------------------------------

\* the statements of a cycle that reaches the controller block, in the
\* order of the source, and of one that does not
FullCycle ==
    <<"read", "restore", "forecast", "simulate", "decide", "execute", "persist">>

SkippedCycle == <<"read", "restore", "forecast", "persist">>

\* the locals of main() at the top of an iteration that starts at t
NewLocals(t) ==
    [cycle_start |-> t, state |-> NewState, corrected_forecast |-> None,
     trajectory |-> None, trajectory_open |-> None, decisions |-> None,
     sleep_time |-> 0, raised |-> FALSE]

\* history: nothing of this cycle yet; last_start and last_end are when
\* the cycle before began and when its elapsed time was taken, pending
\* the commands that raised in the cycle before, device the positions the
\* shade motors and the fan relay were last commanded to
NewHistory(last_start, last_end) ==
    [steps |-> <<>>, restored |-> None, executed |-> {}, measured |-> None,
     last_start |-> last_start, last_end |-> last_end, pending |-> {},
     device |-> RowOf(NewState)]

\* history: the devices after the commands in done have returned
DeviceAfter(device, decisions, done) ==
    [device EXCEPT
        !.shades_east = IF "shades_east" \in done THEN decisions["shades_east"] ELSE @,
        !.shades_west = IF "shades_west" \in done THEN decisions["shades_west"] ELSE @,
        !.fan_on = IF "fan" \in done THEN decisions["fan"] ELSE @]

\* history: the device commands of the cycle that has ended which raised,
\* each with the value that was desired
FailedInCycle ==
    IF IsNone(x_in.decisions) THEN {}
    ELSE {[actuator |-> a, desired |-> Val(x_in.decisions)[a]] :
            a \in Commanded(Val(x_in.decisions), Val(x_out.restored)) \ x_out.executed}

\* sleep_time with no account of the cycle's duration
sleep_time_whole_interval(elapsed) == POLL_INTERVAL_SECONDS

\* sleep_time = max(0, config.POLL_INTERVAL_SECONDS - elapsed)
sleep_time(elapsed) == Max2(0, POLL_INTERVAL_SECONDS - elapsed)

\* AfterForecast when log_sensors sits inside the controller block
AfterForecastInsideBlock(have_inputs) ==
    IF have_inputs THEN "simulate" ELSE "measure"

\* the statement after the forecast: the model run and the controller
\* block are entered with a forecast and an indoor temperature, otherwise
\* log_sensors is next
AfterForecast(have_inputs) ==
    IF have_inputs THEN "simulate" ELSE "persist"

\* the forecasts get_corrected_forecast can return
CycleForecasts == {None} \cup {Some(fc) : fc \in LoopForecasts}

\* the seconds the clock moves in one step of the model
ClockStep == POLL_INTERVAL_SECONDS \div 2

\* the history with the step just done added
Stepped(step) == [x_out EXCEPT !.steps = Append(@, step)]

InitCycle ==
    /\ IdleThreads
    /\ IdleDecide
    /\ IdleRetry
    /\ wall_clock = 0
    /\ overrides = {}
    /\ pc = "start"
    /\ cyc = NewCycle
    /\ sensor_log = None
    /\ x_in = NewLocals(0)
    /\ x_out = NewHistory(None, None)
    /\ x_pc = "start"
    /\ x_clock = 0

\* cycle_start = time.time()
CycleStarts ==
    /\ x_pc = "start"
    /\ x_clock <= MaxCycleTicks * ClockStep
    /\ x_in' = NewLocals(x_clock)
    /\ x_out' = [NewHistory(IF IsNone(x_out.measured) THEN None
                            ELSE Some(x_in.cycle_start),
                            x_out.measured)
                    EXCEPT !.pending = FailedInCycle, !.device = x_out.device]
    /\ x_pc' = "read"
    /\ UNCHANGED <<x_clock, sensor_log>>
    /\ UNCHANGED <<wall_clock, overrides, pc, cyc>>
    /\ UNCHANGED <<decideVars, retryVars, threadVars>>

\* 1. state, station_reading = read_all_sensors(...)
ReadSensors ==
    /\ x_pc = "read"
    /\ \E indoor \in LoopIndoorTemps, outdoor \in LoopOutdoorTemps :
        x_in' = [x_in EXCEPT !.state = [NewState EXCEPT !.indoor_temp = indoor,
                                                         !.outdoor_temp = outdoor]]
    /\ x_out' = Stepped("read")
    /\ x_pc' = "restore"
    /\ UNCHANGED <<x_clock, sensor_log>>
    /\ UNCHANGED <<wall_clock, overrides, pc, cyc>>
    /\ UNCHANGED <<decideVars, retryVars, threadVars>>

\* 1b. last_act = logger.get_last_actuator_state(); if last_act: ...
RestoreActuators ==
    /\ x_pc = "restore"
    /\ \E query_ok \in BOOLEAN :
        x_in' = [x_in EXCEPT !.state =
                    restore(@, get_last_actuator_state(sensor_log, query_ok))]
    /\ x_out' = [Stepped("restore") EXCEPT !.restored = Some(RowOf(x_in'.state))]
    /\ x_pc' = "forecast"
    /\ UNCHANGED <<x_clock, sensor_log>>
    /\ UNCHANGED <<wall_clock, overrides, pc, cyc>>
    /\ UNCHANGED <<decideVars, retryVars, threadVars>>

\* 2. raw_forecast, corrected_forecast = get_corrected_forecast(...)
CorrectForecast ==
    /\ x_pc = "forecast"
    /\ \E fc \in CycleForecasts :
        /\ x_in' = [x_in EXCEPT !.corrected_forecast = fc]
        /\ x_pc' = AfterForecast(~IsNone(fc) /\ ~IsNone(x_in.state.indoor_temp))
    /\ x_out' = Stepped("forecast")
    /\ UNCHANGED <<x_clock, sensor_log>>
    /\ UNCHANGED <<wall_clock, overrides, pc, cyc>>
    /\ UNCHANGED <<decideVars, retryVars, threadVars>>

\* 4. and 4b.: thermal_model.predict for the state and for its copy with
\* the shades open
Simulate ==
    /\ x_pc = "simulate"
    /\ \E traj \in LoopTrajectories(x_in.state) :
        x_in' = [x_in EXCEPT !.trajectory = traj[1], !.trajectory_open = traj[2]]
    /\ x_out' = Stepped("simulate")
    /\ x_pc' = "decide"
    /\ UNCHANGED <<x_clock, sensor_log>>
    /\ UNCHANGED <<wall_clock, overrides, pc, cyc>>
    /\ UNCHANGED <<decideVars, retryVars, threadVars>>

\* get_setpoints, get_active_overrides, controller.decide
Decide ==
    /\ x_pc = "decide"
    /\ \E minute \in LoopClocks :
        x_in' = [x_in EXCEPT !.decisions =
                    Some(decide(x_in.state, x_in.trajectory, x_in.trajectory_open,
                                DEFAULT_HEAT_SP, DEFAULT_COOL_SP,
                                get_active_overrides(overrides, wall_clock, TRUE),
                                x_in.corrected_forecast, minute))]
    /\ x_out' = Stepped("decide")
    /\ x_pc' = "execute"
    /\ UNCHANGED <<x_clock, sensor_log>>
    /\ UNCHANGED <<wall_clock, overrides, pc, cyc>>
    /\ UNCHANGED <<decideVars, retryVars, threadVars>>

\* controller.execute(decisions, state, ...): the commands that return
\* set their field of state
Execute ==
    /\ x_pc = "execute"
    /\ LET decisions == Val(x_in.decisions)
       IN \E failing \in SUBSET Commanded(decisions, x_in.state) :
            /\ x_in' = [x_in EXCEPT !.state = execute(decisions, @, failing)]
            /\ x_out' = [Stepped("execute") EXCEPT
                            !.executed = Commanded(decisions, x_in.state) \ failing,
                            !.device = DeviceAfter(@, decisions,
                                            Commanded(decisions, x_in.state) \ failing)]
    /\ x_pc' = "persist"
    /\ UNCHANGED <<x_clock, sensor_log>>
    /\ UNCHANGED <<wall_clock, overrides, pc, cyc>>
    /\ UNCHANGED <<decideVars, retryVars, threadVars>>

\* 5. logger.log_sensors(state); an insert that raises leaves the try
\* block through the except clause
Persist ==
    /\ x_pc = "persist"
    /\ \E insert_ok \in BOOLEAN :
        /\ sensor_log' = log_sensors(sensor_log, x_in.state, insert_ok)
        /\ x_in' = [x_in EXCEPT !.raised = ~insert_ok]
    /\ x_out' = Stepped("persist")
    /\ x_pc' = "measure"
    /\ UNCHANGED x_clock
    /\ UNCHANGED <<wall_clock, overrides, pc, cyc>>
    /\ UNCHANGED <<decideVars, retryVars, threadVars>>

\* elapsed = time.time() - cycle_start; sleep_time = max(0, ...);
\* if sleep_time > 0: the thread sleeps, otherwise the loop goes round
MeasureElapsed ==
    /\ x_pc = "measure"
    /\ x_in' = [x_in EXCEPT !.sleep_time = sleep_time(x_clock - x_in.cycle_start)]
    /\ x_out' = [x_out EXCEPT !.measured = Some(x_clock)]
    /\ x_pc' = IF x_in'.sleep_time > 0 THEN "sleeping" ELSE "start"
    /\ UNCHANGED <<x_clock, sensor_log>>
    /\ UNCHANGED <<wall_clock, overrides, pc, cyc>>
    /\ UNCHANGED <<decideVars, retryVars, threadVars>>

\* time.sleep(sleep_time) returns: the thread was suspended for at least
\* sleep_time seconds
SleepReturns ==
    /\ x_pc = "sleeping"
    /\ \E late \in {0, ClockStep} : x_clock' = x_clock + x_in.sleep_time + late
    /\ x_pc' = "start"
    /\ UNCHANGED <<x_in, x_out, sensor_log>>
    /\ UNCHANGED <<wall_clock, overrides, pc, cyc>>
    /\ UNCHANGED <<decideVars, retryVars, threadVars>>

\* the statements of the try block take time
WorkTakesTime ==
    /\ x_pc \in {"read", "restore", "forecast", "simulate", "decide", "execute",
                "persist"}
    /\ x_clock < MaxCycleTicks * ClockStep
    /\ x_clock' = x_clock + ClockStep
    /\ UNCHANGED <<x_in, x_out, x_pc, sensor_log>>
    /\ UNCHANGED <<wall_clock, overrides, pc, cyc>>
    /\ UNCHANGED <<decideVars, retryVars, threadVars>>

NextCycle ==
    \/ CycleStarts
    \/ ReadSensors
    \/ RestoreActuators
    \/ CorrectForecast
    \/ Simulate
    \/ Decide
    \/ Execute
    \/ Persist
    \/ MeasureElapsed
    \/ SleepReturns
    \/ WorkTakesTime

SpecCycle == InitCycle /\ [][NextCycle]_vars

\* ------------------------------------------------------------------------
\* The exhaust-fan relay between dashboard and control loop.  Both
\* web/app.py and controller.execute() switch the relay; x_out holds the
\* relay (the position it was last commanded to and by whom) and what
\* execute() did with the fan in the last cycle.
\* ------------------------------------------------------------------------

\* the relay before any command, no cycle run yet
NewRelay ==
    [position |-> None, by |-> "nobody", fan_desired |-> None, fan_skipped |-> FALSE]

\* exhaust_fan_relay.turn_on() / turn_off() returned
Switched(relay, on, who) ==
    [relay EXCEPT !.position = Some(on), !.by = who]

InitRelay ==
    /\ IdleThreads
    /\ IdleDecide
    /\ IdleRetry
    /\ IdleLoop
    /\ x_in = <<>>
    /\ x_out = NewRelay
    /\ x_pc = "off"
    /\ x_clock = 0

\* POST /api/override for the fan: the rows are written, then the relay is
\* commanded; a relay command that raises is reported in the response
DashboardSetsFan ==
    /\ Cardinality(overrides) < MaxOverrides
    /\ \E command \in OverrideCommands("fan"), duration \in OverrideDurations,
          relay_ok \in BOOLEAN :
        /\ overrides' = CancelRows(overrides, "fan") \cup
                {[actuator |-> "fan", command |-> command,
                  expires_at |-> IsoFormat(wall_clock + duration),
                  cancelled_at |-> None]}
        /\ x_out' = [(IF relay_ok THEN Switched(x_out, command = "on", "dashboard")
                      ELSE x_out)
                     EXCEPT !.fan_desired = None, !.fan_skipped = FALSE]
    /\ UNCHANGED <<wall_clock, sensor_log, pc, cyc>>
    /\ UNCHANGED <<x_in, x_pc, x_clock>>
    /\ UNCHANGED <<decideVars, retryVars, threadVars>>

\* DELETE /api/override/fan: the row is cancelled, no relay command
DashboardCancelsFan ==
    /\ \E r \in overrides : r.actuator = "fan" /\ IsNone(r.cancelled_at)
    /\ overrides' = CancelRows(overrides, "fan")
    /\ UNCHANGED <<wall_clock, sensor_log, pc, cyc>>
    /\ UNCHANGED callVars
    /\ UNCHANGED <<decideVars, retryVars, threadVars>>

\* the sensor readings of the cycles: a day on which the outdoor air is
\* cool enough for the fans, or not
RelayReadings ==
    {[NewState EXCEPT !.indoor_temp = Some(DEFAULT_COOL_SP + 1), !.outdoor_temp = outdoor] :
        outdoor \in LoopOutdoorTemps}

\* one cycle of main() that reaches the controller block, with a database
\* that answers: restore, decide without the overridden actuators,
\* execute, log_sensors
RelayCycle ==
    /\ \E fresh \in RelayReadings :
        LET st == restore(fresh, get_last_actuator_state(sensor_log, TRUE))
            fc == [is_day |-> <<1, 1, 1>>, time |-> <<0, 60, 120>>]
            trajectory == Some(<<InitialSample(st), DEFAULT_COOL_SP>>)
            overridden == get_active_overrides(overrides, wall_clock, TRUE)
            decisions == decide(st, trajectory, trajectory, DEFAULT_HEAT_SP,
                                DEFAULT_COOL_SP, overridden, Some(fc), 30)
            decided == "fan" \in DOMAIN decisions
        IN \E failing \in SUBSET (Commanded(decisions, st) \cap {"fan"}) :
            /\ sensor_log' = log_sensors(sensor_log, execute(decisions, st, failing), TRUE)
            /\ x_out' =
                [(IF "fan" \in Commanded(decisions, st) \ failing
                  THEN Switched(x_out, decisions["fan"], "controller")
                  ELSE x_out)
                 EXCEPT !.fan_desired = IF decided THEN Some(decisions["fan"]) ELSE None,
                        !.fan_skipped = decided /\ "fan" \notin Commanded(decisions, st)]
    /\ UNCHANGED <<wall_clock, overrides, pc, cyc>>
    /\ UNCHANGED <<x_in, x_pc, x_clock>>
    /\ UNCHANGED <<decideVars, retryVars, threadVars>>

\* the wall clock advances
RelayTick ==
    /\ wall_clock < MaxTime
    /\ wall_clock' = wall_clock + 1
    /\ UNCHANGED <<overrides, sensor_log, pc, cyc>>
    /\ UNCHANGED callVars
    /\ UNCHANGED <<decideVars, retryVars, threadVars>>

NextRelay ==
    \/ DashboardSetsFan
    \/ DashboardCancelsFan
    \/ RelayCycle
    \/ RelayTick

SpecRelay == InitRelay /\ [][NextRelay]_vars

\* ------------------------------------------------------------------------
\* Consecutive cycles with the same readings.  thermal_model.predict gets
\* the shade positions of the state (shade_east, shade_west), so with
\* readings and forecast fixed the trajectory is a function of the two
\* positions; the second run of a cycle is the one for both shades open.
\* x_in is what stays the same, x_out the positions and their history.
\* ------------------------------------------------------------------------
ShadePositions == {"open", "closed"}

\* the number of closed shade groups
ClosedCount(east, west) ==
    (IF east = "closed" THEN 1 ELSE 0) + (IF west = "closed" THEN 1 ELSE 0)

\* the predicted temperatures with no, one and both shade groups closed:
\* a closed group removes its share of the solar gain, so the prediction
\* does not rise with the number of closed groups
SteadyPredictions ==
    {p \in [0..2 -> {DEFAULT_COOL_SP - 1, DEFAULT_COOL_SP + 1}] :
        p[0] >= p[1] /\ p[1] >= p[2]}

\* what read_all_sensors returns in every one of the cycles
SteadyReadings ==
    {[NewState EXCEPT !.indoor_temp = Some(indoor), !.outdoor_temp = Some(DEFAULT_COOL_SP)] :
        indoor \in {DEFAULT_COOL_SP - SHADE_OPEN_MARGIN_F - 1, DEFAULT_COOL_SP - 1}}

\* predict(state, forecast)["air_temp_f"] for the positions of state
SteadyTrajectory(st, predictions) ==
    Some(<<InitialSample(st), predictions[ClosedCount(st.shades_east, st.shades_west)]>>)

InitSteady ==
    /\ IdleThreads
    /\ IdleDecide
    /\ IdleRetry
    /\ IdleLoop
    /\ \E readings \in SteadyReadings, predictions \in SteadyPredictions,
          fc \in LoopForecasts, minute \in LoopClocks :
        x_in = [readings |-> readings, predictions |-> predictions,
                corrected_forecast |-> fc, minute |-> minute]
    /\ \E east \in ShadePositions, west \in ShadePositions :
        x_out = [row |-> [RowOf(NewState) EXCEPT !.shades_east = east, !.shades_west = west],
                 changes |-> [shades_east |-> 0, shades_west |-> 0],
                 cycles |-> 0]
    /\ x_pc = "start"
    /\ x_clock = 0

\* one cycle: restore, the two model runs, decide with no override,
\* execute with every command returning, log_sensors
SteadyCycle ==
    /\ x_pc = "start"
    /\ x_out.cycles < MaxSteadyCycles
    /\ LET st == restore(x_in.readings, Some(x_out.row))
           state_open == [st EXCEPT !.shades_east = "open", !.shades_west = "open"]
           decisions == decide(st, SteadyTrajectory(st, x_in.predictions),
                               SteadyTrajectory(state_open, x_in.predictions),
                               DEFAULT_HEAT_SP, DEFAULT_COOL_SP, {},
                               Some(x_in.corrected_forecast), x_in.minute)
           after == RowOf(execute(decisions, st, {}))
       IN x_out' = [row |-> after,
                    changes |-> [a \in {"shades_east", "shades_west"} |->
                                    x_out.changes[a] +
                                    (IF StateField(after, a) # StateField(x_out.row, a)
                                     THEN 1 ELSE 0)],
                    cycles |-> x_out.cycles + 1]
    /\ UNCHANGED <<x_in, x_pc, x_clock>>
    /\ UNCHANGED <<decideVars, retryVars, loopVars, threadVars>>

NextSteady == SteadyCycle

SpecSteady == InitSteady /\ [][NextSteady]_vars

\* ------------------------------------------------------------------------
\* The forecast dictionary as Python objects.  DeviceHealth.last_value of
\* "open_meteo" keeps a reference to the dictionary fetch_forecast
\* returned, and the lists in it are shared by everything that holds that
\* reference.  A heap maps a reference to the list it names; a dictionary
\* maps its keys to references.  x_out holds the heap, last_value, the
\* corrected dictionary of the last cycle and, as history, the lists as
\* they were fetched.
\* ------------------------------------------------------------------------

\* the keys apply_bias_correction passes through list()
ValueKeys == Channels \cup {"weather_code", "is_day"}

ForecastKeys == ValueKeys \cup {"time"}

\* a reference: the dictionary that first held the list, and the key
Refs == {"raw", "new"} \X ForecastKeys

EmptyHeap == [r \in Refs |-> <<>>]

\* the lists a dictionary of references names
Deref(heap, dict) == [k \in DOMAIN dict |-> heap[dict[k]]]

\* a dictionary whose lists are new objects owned by owner
NewDict(owner) == [k \in ForecastKeys |-> <<owner, k>>]

\* the heap after fetch_forecast has built its dictionary
Fetched(heap, forecast) ==
    [r \in Refs |-> IF r[1] = "raw" THEN forecast[r[2]] ELSE heap[r]]

\* the heap once the corrected dictionary of the cycle before is garbage
Collected(heap) ==
    [r \in Refs |-> IF r[1] = "new" THEN <<>> ELSE heap[r]]

\* list_copy when the dictionary is built from the lists themselves
list_alias(ref, fresh) == ref

\* list(forecast[key]): the reference of a new list with the same items
list_copy(ref, fresh) == fresh

\* the corrected dictionary before the deltas are applied: "time" is the
\* forecast's own list, every other key a copy
CorrectedDict(dict) ==
    [k \in ForecastKeys |->
        IF k = "time" THEN dict[k] ELSE list_copy(dict[k], <<"new", k>>)]

\* corrected[key][i] = ... for i in range(idx, len(corrected[key]))
ShiftList(list, key, delta, idx) ==
    [i \in 1..Len(list) |->
        IF i >= FirstShifted(idx) THEN ShiftEntry(key, list[i], delta) ELSE list[i]]

\* apply_bias_correction on the heap: the heap afterwards and the
\* dictionary returned
BiasCorrectionOnHeap(heap, dict, station_reading, current_hour) ==
    LET found == IndexOf(heap[dict["time"]], current_hour)
    IN IF IsNone(found) THEN [heap |-> heap, dict |-> dict]
       ELSE LET corrected == CorrectedDict(dict)
                copied == [r \in Refs |->
                            IF r[1] = "new" /\ r[2] \in ValueKeys /\ corrected[r[2]] = r
                            THEN heap[dict[r[2]]] ELSE heap[r]]
                deltas == Deltas(Deref(heap, dict), station_reading, Val(found))
                written == [r \in Refs |->
                            IF r[2] \in DOMAIN deltas /\ corrected[r[2]] = r
                            THEN ShiftList(copied[r], r[2], deltas[r[2]], Val(found))
                            ELSE copied[r]]
            IN [heap |-> written, dict |-> corrected]

\* the forecasts fetch_forecast returns here: two hours, every
\* temperature array, humidity steady
CacheForecasts ==
    {f \in ForecastsOf(2) :
        /\ f.humidity[1] = f.humidity[2]
        /\ f.solar_irradiance_wm2 = [i \in 1..2 |-> Some(4)]
        /\ f.wind_speed_mph = [i \in 1..2 |-> Some(4)]}

\* the station readings of a cycle; None when the station gave nothing
CacheStations ==
    {None} \cup
    {Some(r) : r \in {q \in StationReadings :
                        /\ IsNone(q.solar_irradiance_wm2)
                        /\ IsNone(q.wind_speed_mph)
                        /\ q.outdoor_humidity \in {None, Some(0)}
                        /\ ~IsNone(q.outdoor_temp_f)}}

NewCache ==
    [heap |-> EmptyHeap, last_value |-> None, fetched_lists |-> None,
     corrected |-> None, station_reading |-> None, current_hour |-> 0,
     from_cache |-> FALSE, shifted_before |-> FALSE, cycles |-> 0]

InitCache ==
    /\ IdleThreads
    /\ IdleDecide
    /\ IdleRetry
    /\ IdleLoop
    /\ x_in = <<>>
    /\ x_out = NewCache
    /\ x_pc = "start"
    /\ x_clock = 0

\* the lists of the corrected dictionary differ from the fetched ones
IsShifted(cache) ==
    /\ ~IsNone(cache.corrected)
    /\ Deref(cache.heap, Val(cache.corrected)) # Val(cache.fetched_lists)

\* the forecast part of a cycle in which fetch_forecast returned:
\* record_success keeps the dictionary, then get_corrected_forecast
FetchAndCorrect ==
    /\ x_pc = "start"
    /\ x_out.cycles < MaxForecastCycles
    /\ \E forecast \in CacheForecasts, station \in CacheStations, hour \in 1..3 :
        LET heap == Fetched(Collected(x_out.heap), forecast)
            raw == NewDict("raw")
            done == IF IsNone(station) THEN [heap |-> heap, dict |-> raw]
                    ELSE BiasCorrectionOnHeap(heap, raw, Val(station), hour)
        IN x_out' = [heap |-> done.heap, last_value |-> Some(raw),
                     fetched_lists |-> Some(forecast),
                     corrected |-> Some(done.dict), station_reading |-> station,
                     current_hour |-> hour, from_cache |-> FALSE,
                     shifted_before |-> FALSE, cycles |-> x_out.cycles + 1]
    /\ UNCHANGED <<x_in, x_pc, x_clock>>
    /\ UNCHANGED <<decideVars, retryVars, loopVars, threadVars>>

\* the forecast part of a cycle in which both attempts of fetch_forecast
\* raised: retry_with_fallback returns health.last_value, or the fallback
\* None when there is none
ReuseAndCorrect ==
    /\ x_pc = "start"
    /\ x_out.cycles < MaxForecastCycles
    /\ \E station \in CacheStations, hour \in 1..3 :
        LET heap == Collected(x_out.heap)
            raw == x_out.last_value
            done == IF IsNone(raw) THEN [heap |-> heap, dict |-> None]
                    ELSE IF IsNone(station) THEN [heap |-> heap, dict |-> raw]
                    ELSE LET r == BiasCorrectionOnHeap(heap, Val(raw), Val(station), hour)
                         IN [heap |-> r.heap, dict |-> Some(r.dict)]
        IN x_out' = [x_out EXCEPT !.heap = done.heap,
                                  !.corrected = done.dict,
                                  !.station_reading = station,
                                  !.current_hour = hour,
                                  !.from_cache = TRUE,
                                  !.shifted_before = @ \/ IsShifted(x_out),
                                  !.cycles = @ + 1]
    /\ UNCHANGED <<x_in, x_pc, x_clock>>
    /\ UNCHANGED <<decideVars, retryVars, loopVars, threadVars>>

NextCache ==
    \/ FetchAndCorrect
    \/ ReuseAndCorrect

SpecCache == InitCache /\ [][NextCache]_vars

\* ------------------------------------------------------------------------
\* The settings table between dashboard (web/app.py) and control loop
\* (controller.get_setpoints).  A row is key and value, the key being the
\* primary key; a JSON value is ("number", n) or ("string", s).  x_out
\* holds the table, what the dashboard stored last and what get_setpoints
\* returned last.
\* ------------------------------------------------------------------------

\* the setpoints the dashboard sends
SettingValues ==
    {<<"number", n>> : n \in {DEFAULT_HEAT_SP - 5, DEFAULT_HEAT_SP + 5,
                              DEFAULT_COOL_SP - 5, DEFAULT_COOL_SP + 5}}
        \cup {<<"string", "warm">>}

\* str(value): the text stored in the value column
str(value) == [text_of |-> value]

\* float(text): the number, or None for the ValueError
float(text) ==
    IF text.text_of[1] = "number" THEN Some(text.text_of[2]) ELSE None

\* INSERT OR REPLACE INTO settings VALUES (key, value, now)
InsertOrReplace(table, key, value) ==
    {r \in table : r.key # key} \cup {[key |-> key, value |-> value]}

\* INSERT OR IGNORE INTO settings VALUES (key, value, now)
InsertOrIgnore(table, key, value) ==
    IF \E r \in table : r.key = key THEN table
    ELSE table \cup {[key |-> key, value |-> value]}

ensure_settings(table) ==
    InsertOrIgnore(InsertOrIgnore(table, "hvac_heat_setpoint",
                                  str(<<"number", DEFAULT_HEAT_SP>>)),
                   "hvac_cool_setpoint", str(<<"number", DEFAULT_COOL_SP>>))

\* the keys api_set_settings accepts
AllowedSettings == {"hvac_heat_setpoint", "hvac_cool_setpoint"}

\* the keys get_setpoints selects: WHERE key IN ('heat_setpoint', 'cool_setpoint')
SetpointKeys == [heat |-> "heat_setpoint", cool |-> "cool_setpoint"]

\* d.get(key, default) over the selected rows
RowValueOr(rows, key, default) ==
    IF \E r \in rows : r.key = key
    THEN Val(float((CHOOSE r \in rows : r.key = key).value))
    ELSE default

\* controller.get_setpoints(db_path): (heat_sp, cool_sp)
get_setpoints(table, query_ok) ==
    LET rows == {r \in table : r.key \in {SetpointKeys.heat, SetpointKeys.cool}}
    IN IF ~query_ok \/ \E r \in rows : IsNone(float(r.value))
       THEN <<DEFAULT_HEAT_SP, DEFAULT_COOL_SP>>
       ELSE <<RowValueOr(rows, SetpointKeys.heat, DEFAULT_HEAT_SP),
              RowValueOr(rows, SetpointKeys.cool, DEFAULT_COOL_SP)>>

\* the JSON bodies of POST /api/settings: any of the two setpoints, and a
\* key that is not allowed
SettingRequests ==
    {[k \in keys |-> IF k = "hvac_heat_setpoint" THEN heat
                     ELSE IF k = "hvac_cool_setpoint" THEN cool ELSE heat] :
        keys \in (SUBSET (AllowedSettings \cup {"poll_interval"})) \ {{}},
        heat \in SettingValues, cool \in SettingValues}

NewSettings ==
    [table |-> {}, stored |-> [heat |-> None, cool |-> None],
     returned |-> None, readable |-> FALSE]

InitSettings ==
    /\ IdleThreads
    /\ IdleDecide
    /\ IdleRetry
    /\ IdleLoop
    /\ x_in = <<>>
    /\ x_out = NewSettings
    /\ x_pc = "start"
    /\ x_clock = 0

\* the table after the for loop of api_set_settings
StoreAll(table, data) ==
    LET heat == IF "hvac_heat_setpoint" \in DOMAIN data
                THEN InsertOrReplace(table, "hvac_heat_setpoint",
                                     str(data["hvac_heat_setpoint"]))
                ELSE table
    IN IF "hvac_cool_setpoint" \in DOMAIN data
       THEN InsertOrReplace(heat, "hvac_cool_setpoint", str(data["hvac_cool_setpoint"]))
       ELSE heat

\* POST /api/settings
api_set_settings ==
    /\ x_pc = "start"
    /\ \E data \in SettingRequests :
        x_out' = [x_out EXCEPT
                    !.table = StoreAll(ensure_settings(@), data),
                    !.stored = [heat |-> IF "hvac_heat_setpoint" \in DOMAIN data
                                         THEN Some(data["hvac_heat_setpoint"])
                                         ELSE @.heat,
                                cool |-> IF "hvac_cool_setpoint" \in DOMAIN data
                                         THEN Some(data["hvac_cool_setpoint"])
                                         ELSE @.cool],
                    !.returned = None]
    /\ UNCHANGED <<x_in, x_pc, x_clock>>
    /\ UNCHANGED <<decideVars, retryVars, loopVars, threadVars>>

\* heat_sp, cool_sp = controller.get_setpoints(config.DB_PATH) in a cycle
ReadSetpoints ==
    /\ x_pc = "start"
    /\ \E query_ok \in BOOLEAN :
        x_out' = [x_out EXCEPT !.returned = Some(get_setpoints(x_out.table, query_ok)),
                               !.readable = query_ok]
    /\ UNCHANGED <<x_in, x_pc, x_clock>>
    /\ UNCHANGED <<decideVars, retryVars, loopVars, threadVars>>

NextSettings ==
    \/ api_set_settings
    \/ ReadSetpoints

SpecSettings == InitSettings /\ [][NextSettings]_vars

\* ------------------------------------------------------------------------
\* Concurrent override requests.  Flask serves each request on a thread of
\* its own with a connection of its own (get_db); SQLite lets one
\* connection write at a time: the first writing statement of a
\* transaction takes the write lock, and commit or rollback releases it.
\* x_out is the database (committed rows, AUTOINCREMENT counter, holder of
\* the write lock), x_in the request each thread is serving, x_clock the
\* number of requests received.
\* ------------------------------------------------------------------------
WebThreads == {"w1", "w2"}

NoRequest ==
    [at |-> "idle", actuator |-> "none", command |-> "none", now |-> 0,
     matched |-> {}, inserted |-> None]

NewDatabase == [rows |-> {}, next_id |-> 1, writer |-> None]

InitOverrides ==
    /\ IdleThreads
    /\ IdleDecide
    /\ IdleRetry
    /\ IdleLoop
    /\ x_in = [w \in WebThreads |-> NoRequest]
    /\ x_out = NewDatabase
    /\ x_pc = "serving"
    /\ x_clock = 0

\* the write lock when every connection may write at any time
CanWriteUnlocked(writer, w) == TRUE

\* SQLite grants the write lock to one connection at a time
CanWrite(writer, w) == IsNone(writer) \/ writer = Some(w)

\* the ids of the rows the UPDATE of a request changes
MatchedIds(rows, actuator) ==
    {r.id : r \in rows \ CancelRows(rows, actuator)}

\* the committed rows after a transaction that changed the rows matched
\* and inserted a row (or none)
Committed(rows, matched, inserted) ==
    {IF r.id \in matched THEN [r EXCEPT !.cancelled_at = Some("set")] ELSE r :
        r \in rows}
        \cup (IF IsNone(inserted) THEN {} ELSE {Val(inserted)})

\* POST /api/override arrives: actuator, command and now are fixed,
\* ensure_overrides has run
SetRequested(w) ==
    /\ x_in[w].at = "idle"
    /\ x_clock < MaxOverrideRequests
    /\ \E actuator \in OverrideTargets :
        \E command \in OverrideCommands(actuator) :
            x_in' = [x_in EXCEPT ![w] =
                        [NoRequest EXCEPT !.at = "set", !.actuator = actuator,
                                          !.command = command, !.now = x_clock]]
    /\ x_clock' = x_clock + 1
    /\ UNCHANGED <<x_out, x_pc>>
    /\ UNCHANGED <<decideVars, retryVars, loopVars, threadVars>>

\* DELETE /api/override/<actuator> arrives
CancelRequested(w) ==
    /\ x_in[w].at = "idle"
    /\ x_clock < MaxOverrideRequests
    /\ \E actuator \in OverrideTargets :
        x_in' = [x_in EXCEPT ![w] =
                    [NoRequest EXCEPT !.at = "cancel", !.actuator = actuator,
                                      !.now = x_clock]]
    /\ x_clock' = x_clock + 1
    /\ UNCHANGED <<x_out, x_pc>>
    /\ UNCHANGED <<decideVars, retryVars, loopVars, threadVars>>

\* UPDATE overrides SET cancelled_at = ? WHERE actuator = ? AND
\* cancelled_at IS NULL: the first statement of the transaction
UpdateCancelledAt(w) ==
    /\ x_in[w].at \in {"set", "cancel"}
    /\ CanWrite(x_out.writer, w)
    /\ x_in' = [x_in EXCEPT
                  ![w].at = IF @ = "set" THEN "set_updated" ELSE "cancel_updated",
                  ![w].matched = MatchedIds(x_out.rows, x_in[w].actuator)]
    /\ x_out' = [x_out EXCEPT !.writer = Some(w)]
    /\ UNCHANGED <<x_pc, x_clock>>
    /\ UNCHANGED <<decideVars, retryVars, loopVars, threadVars>>

\* INSERT INTO overrides (actuator, command, created_at, expires_at, source)
InsertOverride(w) ==
    /\ x_in[w].at = "set_updated"
    /\ \E duration \in OverrideDurations :
        x_in' = [x_in EXCEPT
                  ![w].at = "set_inserted",
                  ![w].inserted =
                      Some([id |-> x_out.next_id, actuator |-> x_in[w].actuator,
                            command |-> x_in[w].command,
                            expires_at |-> IsoFormat(x_in[w].now + duration),
                            cancelled_at |-> None])]
    /\ x_out' = [x_out EXCEPT !.next_id = @ + 1]
    /\ UNCHANGED <<x_pc, x_clock>>
    /\ UNCHANGED <<decideVars, retryVars, loopVars, threadVars>>

\* conn.commit(): both statements of the request become visible together
CommitOverride(w) ==
    /\ x_in[w].at \in {"set_inserted", "cancel_updated"}
    /\ x_out' = [x_out EXCEPT
                   !.rows = Committed(@, x_in[w].matched, x_in[w].inserted),
                   !.writer = None]
    /\ x_in' = [x_in EXCEPT ![w] = NoRequest]
    /\ UNCHANGED <<x_pc, x_clock>>
    /\ UNCHANGED <<decideVars, retryVars, loopVars, threadVars>>

\* a statement raises (the database stays locked beyond the timeout, or
\* the write fails): except Exception answers 500, nothing is committed
\* and the connection's transaction is rolled back
RequestFails(w) ==
    /\ x_in[w].at # "idle"
    /\ x_in[w].at \in {"set", "cancel"} => ~CanWrite(x_out.writer, w)
    /\ x_out' = [x_out EXCEPT !.writer = IF @ = Some(w) THEN None ELSE @]
    /\ x_in' = [x_in EXCEPT ![w] = NoRequest]
    /\ UNCHANGED <<x_pc, x_clock>>
    /\ UNCHANGED <<decideVars, retryVars, loopVars, threadVars>>

NextOverrides ==
    \E w \in WebThreads :
        \/ SetRequested(w)
        \/ CancelRequested(w)
        \/ UpdateCancelledAt(w)
        \/ InsertOverride(w)
        \/ CommitOverride(w)
        \/ RequestFails(w)

SpecOverrides == InitOverrides /\ [][NextOverrides]_vars

\* ------------------------------------------------------------------------
\* The integration step of thermal_model.predict on its own: x_in holds
\* the node temperatures before a step and the step's inputs, x_out the
\* terms of the step taken last, x_clock the steps taken.
\* ------------------------------------------------------------------------

\* node and outdoor temperatures in whole degrees C
StepAirTemps == {15, 20, 30}
StepMassTemps == {15, 20}
StepOutdoorTemps == {10, 30}

\* W/m2
StepIrradiances == {0, 600}

\* shades both open or both closed, fan off or on, no HVAC power
StepRuns ==
    {[shade_east |-> shade, shade_west |-> shade,
      fan_conductance |-> FanConductance(fan_on), Q_hvac |-> HvacPower("off")] :
        shade \in {0, 1}, fan_on \in BOOLEAN}

InitEuler ==
    /\ IdleThreads
    /\ IdleDecide
    /\ IdleRetry
    /\ IdleLoop
    /\ \E air \in StepAirTemps, mass \in StepMassTemps, out \in StepOutdoorTemps :
        \E I_solar \in StepIrradiances, run \in StepRuns :
            x_in = [T |-> [air |-> air * TicksPerK, mass |-> mass * TicksPerK],
                    T_out |-> out * TicksPerK, I_solar |-> I_solar, run |-> run]
    /\ x_out = None
    /\ x_pc = "start"
    /\ x_clock = 0

\* the body of the for loop up to T_mass += dT_mass
TakeStep ==
    /\ x_pc = "start"
    /\ x_out' = Some(EulerTerms(x_in.T, x_in.T_out, x_in.I_solar, x_in.run))
    /\ x_pc' = "stepped"
    /\ x_clock' = x_clock + 1
    /\ UNCHANGED x_in
    /\ UNCHANGED <<decideVars, retryVars, loopVars, threadVars>>

\* the next iteration starts from the temperatures of this one
NextIteration ==
    /\ x_pc = "stepped"
    /\ x_clock < MaxEulerSteps
    /\ x_in' = [x_in EXCEPT !.T = [air |-> Val(x_out).air, mass |-> Val(x_out).mass]]
    /\ x_pc' = "start"
    /\ UNCHANGED <<x_out, x_clock>>
    /\ UNCHANGED <<decideVars, retryVars, loopVars, threadVars>>

NextEuler ==
    \/ TakeStep
    \/ NextIteration

SpecEuler == InitEuler /\ [][NextEuler]_vars

\* ------------------------------------------------------------------------
\* Claims about overrides in the control loop
\* ------------------------------------------------------------------------

\* the field of a persisted row that belongs to an actuator
RowField(row, actuator) ==
    IF actuator = "shades_east" THEN row.shades_east
    ELSE IF actuator = "shades_west" THEN row.shades_west
    ELSE row.fan_on

\* the value of that field an override command asks for
CommandedValue(o) ==
    IF o.actuator = "fan" THEN o.command = "on" ELSE o.command

\* a cycle has just ended and its sensor-state row was written
CyclePersisted == pc = "sleep" /\ cyc.persisted

\* C4: the row a cycle persists holds, for every override in force on
\* shades_east, shades_west or fan when the cycle ran, the value the
\* override commands.
C4_OverrideStatePersisted ==
    CyclePersisted =>
        \A o \in cyc.live : RowField(Val(sensor_log), o.actuator) = CommandedValue(o)

\* C5: a cycle sends no device command to an actuator that has an override
\* row neither expired nor cancelled when the cycle polls the overrides,
\* whether or not the override query succeeds.
C5_NoCommandWhileOverridden ==
    pc = "sleep" => \A o \in cyc.live : o.actuator \notin cyc.commands

\* the actuators with a row that is not cancelled and whose expiry time
\* the instant t has not passed
NotYetOver(rows, t) ==
    {r.actuator : r \in {q \in rows : IsNone(q.cancelled_at) /\ InstantOf(q.expires_at) >= t}}

\* C6: get_active_overrides reports no actuator whose override rows are
\* all cancelled or past their expiry time.
C6_ExpiredNotReported ==
    get_active_overrides(overrides, wall_clock, TRUE) \subseteq NotYetOver(overrides, wall_clock)

\* a cycle has ended whose body raised before its row was written
CycleRaised == pc = "sleep" /\ ~cyc.persisted

\* C11: an exception in a cycle does not end the loop: after a cycle that
\* raised the loop sleeps and starts a next cycle, and cycles begin and end
\* again and again for ever.
C11_LoopSurvivesExceptions ==
    /\ CycleRaised ~> (pc = "start")
    /\ []<>(pc = "start")
    /\ []<>(pc = "sleep")

\* a cycle raised after its controller had sent a command
C11_Witness ==
    CycleRaised /\ cyc.ran /\ cyc.commands # {}

\* a step of the loop that is a whole cycle in which the controller block
\* was not entered and whose row was written
SkippedCycleStep ==
    pc = "start" /\ pc' = "sleep" /\ ~cyc'.ran /\ cyc'.persisted

\* C12: a cycle without indoor temperature or without forecast sends no
\* device command, and the row it persists has the shade, fan and HVAC
\* fields of the row persisted before it.
C12_SkippedCycleKeepsRow ==
    [][(SkippedCycleStep /\ ~IsNone(sensor_log)) =>
            (cyc'.commands = {} /\ sensor_log' = sensor_log)]_vars

\* ------------------------------------------------------------------------
\* Claims about execute()
\* ------------------------------------------------------------------------

\* C13: in one call of execute a device command that raises does not keep
\* the commands of the other actuators from being attempted, and execute
\* does not raise: every actuator whose desired value differs from the
\* state is commanded, each command that returns sets its field, each one
\* that raises leaves its field.
C13_CommandsIndependent ==
    x_pc = "done" =>
        LET want == Commanded(x_in.decisions, x_in.state)
        IN /\ ~x_out.raised
           /\ x_out.attempted = want
           /\ \A a \in want \ x_in.failing :
                StateField(x_out.state, a) = x_in.decisions[a]
           /\ \A a \in (Actuators \ {"hvac"}) \ (want \ x_in.failing) :
                StateField(x_out.state, a) = StateField(x_in.state, a)

\* the east shade command raised and the fan command was still made
C13_Witness ==
    /\ x_pc = "done"
    /\ "shades_east" \in x_in.failing \cap x_out.attempted
    /\ "fan" \in x_out.attempted \ x_in.failing
    /\ x_out.state.fan_on # x_in.state.fan_on

\* the dictionary without its hvac key
WithoutHvac(decisions) ==
    [a \in DOMAIN decisions \ {"hvac"} |-> decisions[a]]

\* C14: an hvac decision is not executed: with or without the hvac key
\* execute attempts the same commands and leaves the same state, hvac_mode
\* is the one execute was given, and the row persisted from that state
\* restores that same hvac_mode in the next cycle.
C14_HvacNeverExecuted ==
    x_pc = "done" =>
        /\ x_out = ExecuteRun(WithoutHvac(x_in.decisions), x_in.state, x_in.failing)
        /\ "hvac" \notin x_out.attempted
        /\ x_out.state.hvac_mode = x_in.state.hvac_mode
        /\ restore(NewState, get_last_actuator_state(
                        log_sensors(None, x_out.state, TRUE), TRUE)).hvac_mode
                = x_in.state.hvac_mode

\* an hvac decision other than the current hvac_mode went through execute
C14_Witness ==
    /\ x_pc = "done"
    /\ "hvac" \in DOMAIN x_in.decisions
    /\ x_in.decisions["hvac"] # x_in.state.hvac_mode
    /\ x_in.state.hvac_mode # "off"

\* ------------------------------------------------------------------------
\* Claims about apply_bias_correction
\* ------------------------------------------------------------------------

\* the call is over
BiasDone == x_pc = "done"

\* the current hour is in the forecast's time array
HourFound ==
    \E i \in 1..Len(x_in.forecast.time) : x_in.forecast.time[i] = x_in.current_hour

\* its position there
HourIndex ==
    CHOOSE i \in 1..Len(x_in.forecast.time) : x_in.forecast.time[i] = x_in.current_hour

\* what the station measured for a channel, or None
Measured(c) == x_in.station_reading[StationKey(c)]

\* the channel has a reading and a forecast value at the current hour
InBoth(c) == ~IsNone(Measured(c)) /\ ~IsNone(x_in.forecast[c][HourIndex])

\* station value minus raw forecast value at the current hour
StationDelta(c) == Val(Measured(c)) - Val(x_in.forecast[c][HourIndex])

\* the entry the claim expects at position i of a corrected channel
ExpectedEntry(c, i) ==
    LET raw == x_in.forecast[c][i]
        shifted == Val(raw) + StationDelta(c)
    IN IF i < HourIndex \/ IsNone(raw) THEN raw
       ELSE IF c # "temperature_f" /\ shifted < 0 THEN Some(0)
       ELSE Some(shifted)

\* C15: for a channel with a reading and a forecast value at the current
\* hour, every entry at or after the current-hour index is the raw entry
\* plus delta (clamped at zero for solar, humidity and wind; a missing entry
\* stays missing) and every earlier entry is the raw entry; every other
\* channel and array is the raw one.
C15_FlatDeltaFromCurrentHour ==
    (BiasDone /\ HourFound) =>
        /\ DOMAIN x_out = DOMAIN x_in.forecast
        /\ \A k \in DOMAIN x_in.forecast \ Channels : x_out[k] = x_in.forecast[k]
        /\ \A c \in Channels :
            IF InBoth(c)
            THEN /\ Len(x_out[c]) = Len(x_in.forecast[c])
                 /\ \A i \in 1..Len(x_out[c]) : x_out[c][i] = ExpectedEntry(c, i)
            ELSE x_out[c] = x_in.forecast[c]

\* a correction at the second hour that moved the temperature and clamped
\* the humidity
C15_Witness ==
    /\ BiasDone /\ HourFound /\ HourIndex > 1
    /\ InBoth("temperature_f") /\ StationDelta("temperature_f") > 0
    /\ InBoth("humidity") /\ StationDelta("humidity") < 0
    /\ x_out["humidity"][HourIndex] = Some(0)
    /\ ~InBoth("wind_speed_mph")

\* the station measured, for every channel, the forecast's value at the
\* current hour
StationAgrees ==
    HourFound /\ \A c \in Channels : Measured(c) = x_in.forecast[c][HourIndex]

\* C16: when the station reading equals the forecast's value at the
\* current hour for every channel, the returned forecast equals the raw one
\* in every entry of every channel.
C16_AgreementChangesNothing ==
    (BiasDone /\ StationAgrees) => x_out = x_in.forecast

\* agreement on values that are not zero, with later entries to shift
C16_Witness ==
    /\ BiasDone /\ StationAgrees
    /\ HourIndex < Len(x_in.forecast.time)
    /\ Measured("temperature_f") = Some(4)
    /\ Measured("humidity") = Some(4)

\* C17: no entry of the solar irradiance, humidity or wind speed array of
\* the returned forecast is negative.
C17_NonNegativeChannels ==
    BiasDone =>
        \A c \in ClampedChannels : \A i \in 1..Len(x_out[c]) :
            IsNone(x_out[c][i]) \/ Val(x_out[c][i]) >= 0

\* the shift took a wind entry below zero
C17_Witness ==
    /\ BiasDone /\ HourFound
    /\ InBoth("wind_speed_mph")
    /\ \E i \in HourIndex..Len(x_in.forecast.time) :
        Val(x_in.forecast["wind_speed_mph"][i]) + StationDelta("wind_speed_mph") < 0

\* C18: when the current hour is not in the time array the raw forecast is
\* returned unchanged, get_corrected_forecast hands it on as the corrected
\* forecast, and a cycle with an indoor temperature simulates and decides.
C18_HourNotFoundIsNoOp ==
    (BiasDone /\ ~HourFound) =>
        /\ x_out = x_in.forecast
        /\ get_corrected_forecast(Some(x_in.forecast), Some(x_in.station_reading),
                                  x_in.current_hour)
                = <<Some(x_in.forecast), Some(x_in.forecast)>>
        /\ RunsController(
                get_corrected_forecast(Some(x_in.forecast), Some(x_in.station_reading),
                                       x_in.current_hour)[2],
                Some(DEFAULT_COOL_SP))

\* the hour lies after the forecast and the station disagrees with its
\* first entry
C18_Witness ==
    /\ BiasDone /\ ~HourFound
    /\ x_in.current_hour > Len(x_in.forecast.time)
    /\ Measured("temperature_f") = Some(4)
    /\ x_in.forecast["temperature_f"][1] = Some(0)

\* ------------------------------------------------------------------------
\* Claims about decide()
\* ------------------------------------------------------------------------

\* some sample of trajectory_current inside the prediction horizon (the
\* initial sample excluded) lies above cool_sp
OverheatPredicted(in) ==
    /\ ~IsNone(in.trajectory_current)
    /\ \E k \in 2..Len(Val(in.trajectory_current)) :
          /\ k <= PREDICTION_HORIZON_MIN + 1
          /\ Val(in.trajectory_current)[k] > in.cool_sp

\* C1: for every shade that is not overridden, a predicted maximum above
\* cool_sp makes the decision "closed", whatever the sunset proximity, the
\* shades-open prediction and the indoor temperature are.
C1_OverheatClosesShades ==
    (d_pc = "done" /\ OverheatPredicted(d_in)) =>
        \A a \in Shades \ d_in.overridden :
            a \in DOMAIN d_out /\ d_out[a] = "closed"

\* C1 witness: sunset is near and the overheat is predicted; the east shade
\* is free and was closed.
C1_Witness ==
    /\ d_pc = "done"
    /\ OverheatPredicted(d_in)
    /\ _is_near_sunset(d_in.corrected_forecast, d_in.now)
    /\ "shades_east" \notin d_in.overridden
    /\ "shades_east" \in DOMAIN d_out
    /\ d_out["shades_east"] = "closed"

\* the result of the same call with an empty overridden set
DecideFree(in) == DecideOf([in EXCEPT !.overridden = {}])

\* C2: the result holds no key of an overridden actuator, and every other
\* actuator has the decision (or the absence of one) it has with an empty
\* overridden set; only hvac may differ, and only when the fan is overridden
\* and the fan decision it would have read differs from state.fan_on.
C2_OverriddenSkipped ==
    d_pc = "done" =>
        LET free == DecideFree(d_in)
        IN /\ DOMAIN d_out = (DOMAIN free) \ d_in.overridden
           /\ \A a \in DOMAIN d_out :
                d_out[a] # free[a] =>
                    /\ a = "hvac"
                    /\ "fan" \in d_in.overridden
                    /\ "fan" \in DOMAIN free
                    /\ free["fan"] # d_in.state.fan_on

\* C2 witness: fan and east shade are overridden and would have had a
\* decision; the west shade keeps its decision and hvac is the exception.
C2_Witness ==
    /\ d_pc = "done"
    /\ d_in.overridden = {"fan", "shades_east"}
    /\ {"fan", "shades_east"} \subseteq DOMAIN DecideFree(d_in)
    /\ DOMAIN d_out = {"shades_west", "hvac"}
    /\ d_out["hvac"] # DecideFree(d_in)["hvac"]

\* C3: when the hvac decision is "cool" the exhaust fan is not commanded
\* on: a fan entry is FALSE, and without a fan entry state.fan_on is FALSE.
C3_NoFanWithCooling ==
    (d_pc = "done" /\ "hvac" \in DOMAIN d_out /\ d_out["hvac"] = "cool") =>
        IF "fan" \in DOMAIN d_out
        THEN d_out["fan"] = FALSE
        ELSE d_in.state.fan_on = FALSE

\* C3 witness: cooling is chosen while the fan is overridden (no fan entry).
C3_Witness ==
    /\ d_pc = "done"
    /\ "hvac" \in DOMAIN d_out
    /\ d_out["hvac"] = "cool"
    /\ "fan" \in d_in.overridden
    /\ "fan" \notin DOMAIN d_out

\* ------------------------------------------------------------------------
\* Claims about retry_with_fallback and DeviceHealth
\* ------------------------------------------------------------------------
CallRunning == r_pc \in {"attempt", "sleep", "exhausted"}

BothAttemptsRaised == r_call.events = <<"raise", "sleep", "raise">>

\* C7: a call invokes the read function at most twice and sleeps at most
\* once; a finished call is one invocation without delay, or a raising
\* invocation, one delay and a second invocation; a running call can
\* always take its next step, so it returns.
C7_BoundedRetry ==
    /\ Len(SelectSeq(r_call.events, LAMBDA e : e # "sleep")) <= 2
    /\ Len(SelectSeq(r_call.events, LAMBDA e : e = "sleep")) <= 1
    /\ r_pc # "raised"
    /\ r_pc = "returned" =>
            r_call.events \in {<<"ok">>, <<"raise", "sleep", "ok">>,
                               <<"raise", "sleep", "raise">>}
    /\ CallRunning =>
            ENABLED (AttemptSucceeds \/ AttemptRaises \/ RetrySleep \/ Exhausted)

\* C7 witness: a call that raised twice has returned.
C7_Witness ==
    /\ r_pc = "returned"
    /\ BothAttemptsRaised

\* C8: when both attempts raise, the call returns used_fallback = true with
\* the value of the device's last successful read if there was one and the
\* caller's fallback_value otherwise, and nothing is raised to the caller.
C8_FallbackValue ==
    /\ r_pc # "raised"
    /\ (r_pc = "returned" /\ BothAttemptsRaised) =>
            /\ r_ret.is_fallback = TRUE
            /\ r_ret.value = IF r_call.device \in DOMAIN r_good
                             THEN Some(r_good[r_call.device])
                             ELSE r_call.fallback

\* C8 witness: both attempts raised for a device that had a successful read
\* before, with a fallback_value that is not None.
C8_Witness ==
    /\ r_pc = "returned"
    /\ BothAttemptsRaised
    /\ r_call.device \in DOMAIN r_good
    /\ r_call.fallback # None
    /\ r_ret.value = Some(r_good[r_call.device])

\* C9: a call whose first or second attempt succeeds returns (value, false)
\* and leaves consecutive_failures = 0, alert_sent = false, last_value =
\* value and last_success set during the call.
C9_SuccessRecorded ==
    (r_pc = "returned" /\ ~BothAttemptsRaised) =>
        LET h == r_health[r_call.device]
            value == r_good[r_call.device]
        IN /\ r_ret = [value |-> Some(value), is_fallback |-> FALSE]
           /\ h.consecutive_failures = 0
           /\ h.alert_sent = FALSE
           /\ h.last_value = Some(value)
           /\ ~IsNone(h.last_success)
           /\ r_call.started <= Val(h.last_success)
           /\ Val(h.last_success) <= r_clock

\* C9 witness: the first attempt raised and the second succeeded.
C9_Witness ==
    /\ r_pc = "returned"
    /\ r_call.events = <<"raise", "sleep", "ok">>
    /\ r_health[r_call.device].consecutive_failures = 0

\* the rule of the documentation for one device
AlertRule(name, health, now) ==
    /\ name \in DOMAIN ALERT_THRESHOLDS
    /\ ~health.alert_sent
    /\ \/ ALERT_THRESHOLDS[name] = 0 /\ health.consecutive_failures >= 1
       \/ /\ ALERT_THRESHOLDS[name] # 0
          /\ HoursSinceSuccessAtLeast(health, now, ALERT_THRESHOLDS[name])

\* C10: should_alert is true exactly when the device has a threshold, has
\* not alerted yet, and either its threshold is zero and it has a failure,
\* or its threshold is nonzero and the hours since the last success reach
\* it; once alerted it is false.
C10_AlertRule ==
    \A dev \in DOMAIN r_health :
        /\ should_alert(dev, r_health[dev], r_clock)
                <=> AlertRule(dev, r_health[dev], r_clock)
        /\ r_health[dev].alert_sent => ~should_alert(dev, r_health[dev], r_clock)

\* ------------------------------------------------------------------------
\* Claims about the fan and hvac rules of decide()
\* ------------------------------------------------------------------------

\* the indoor temperature is known and the actuator is not overridden
Decides(actuator) ==
    d_pc = "done" /\ actuator \notin d_in.overridden /\ ~IsNone(d_in.state.indoor_temp)

\* outdoor air is known and more than the effectiveness delta below indoor
FanEffective(in) ==
    /\ ~IsNone(in.state.outdoor_temp)
    /\ Val(in.state.outdoor_temp) < Val(in.state.indoor_temp) - FAN_EFFECTIVENESS_DELTA_F

FanShouldRun(in) ==
    Val(in.state.indoor_temp) > in.cool_sp /\ FanEffective(in)

FanShouldStop(in) ==
    /\ ~FanShouldRun(in)
    /\ \/ Val(in.state.indoor_temp) < in.cool_sp - FAN_STOP_MARGIN_F
       \/ ~FanEffective(in)

\* C19: with the fan not overridden and the indoor temperature known, the
\* fan decision is TRUE when indoor > cool_sp and the fan is effective,
\* otherwise FALSE when indoor < cool_sp - FAN_STOP_MARGIN_F or the fan is
\* not effective, and otherwise there is no fan key.
C19_FanRule ==
    Decides("fan") =>
        IF FanShouldRun(d_in) THEN "fan" \in DOMAIN d_out /\ d_out["fan"] = TRUE
        ELSE IF FanShouldStop(d_in) THEN "fan" \in DOMAIN d_out /\ d_out["fan"] = FALSE
        ELSE "fan" \notin DOMAIN d_out

\* the hold: an effective fan, indoor inside the stop margin below cool_sp
C19_Witness ==
    /\ Decides("fan")
    /\ FanEffective(d_in)
    /\ Val(d_in.state.indoor_temp) <= d_in.cool_sp
    /\ Val(d_in.state.indoor_temp) >= d_in.cool_sp - FAN_STOP_MARGIN_F
    /\ d_in.state.fan_on
    /\ "fan" \notin DOMAIN d_out

\* some sample of trajectory_current inside the prediction horizon (the
\* initial sample excluded) lies below heat_sp
UnderheatPredicted(in) ==
    /\ ~IsNone(in.trajectory_current)
    /\ \E k \in 2..Len(Val(in.trajectory_current)) :
          /\ k <= PREDICTION_HORIZON_MIN + 1
          /\ Val(in.trajectory_current)[k] < in.heat_sp

\* this cycle's fan decision, else the current fan state
FanCommanded ==
    IF "fan" \in DOMAIN d_out THEN d_out["fan"] ELSE d_in.state.fan_on

\* C20: with hvac not overridden and the indoor temperature known, an hvac
\* decision is always emitted: "heat" when pred_min < heat_sp, whatever
\* pred_max is; otherwise "cool" when pred_max > cool_sp, the fan is not
\* effective and the fan is not commanded on; otherwise "off".
C20_HvacRule ==
    Decides("hvac") =>
        /\ "hvac" \in DOMAIN d_out
        /\ d_out["hvac"] =
                IF UnderheatPredicted(d_in) THEN "heat"
                ELSE IF /\ OverheatPredicted(d_in)
                        /\ ~FanEffective(d_in)
                        /\ ~FanCommanded
                     THEN "cool"
                ELSE "off"

\* heating wins although an overheat is predicted too and nothing else
\* would keep cooling off
C20_Witness ==
    /\ Decides("hvac")
    /\ UnderheatPredicted(d_in) /\ OverheatPredicted(d_in)
    /\ ~FanEffective(d_in) /\ ~FanCommanded
    /\ d_out["hvac"] = "heat"

\* ------------------------------------------------------------------------
\* Claims about the shade rule of decide()
\* ------------------------------------------------------------------------

\* the shades-open run has samples inside the prediction horizon (the
\* initial sample excluded) and all of them lie below cool_sp
OpenRunStaysBelow(in) ==
    /\ ~IsNone(in.trajectory_shades_open)
    /\ Len(Val(in.trajectory_shades_open)) >= 2
    /\ \A k \in 2..Len(Val(in.trajectory_shades_open)) :
          k <= PREDICTION_HORIZON_MIN + 1 =>
              Val(in.trajectory_shades_open)[k] < in.cool_sp

\* the indoor temperature is known and more than the margin below cool_sp
IndoorHasBuffer(in) ==
    /\ ~IsNone(in.state.indoor_temp)
    /\ Val(in.state.indoor_temp) < in.cool_sp - SHADE_OPEN_MARGIN_F

ComingSunsets(in) ==
    IF IsNone(in.corrected_forecast) THEN {}
    ELSE LET fc == Val(in.corrected_forecast)
         IN {fc.time[i + 1] : i \in {k \in 1..(Len(fc.is_day) - 1) :
                                        /\ fc.is_day[k] = 1
                                        /\ fc.is_day[k + 1] = 0
                                        /\ fc.time[k + 1] >= in.now}}

\* the next transition exists and is at most the lead time away
NextSunsetWithinLead(in) ==
    /\ ComingSunsets(in) # {}
    /\ SetMin(ComingSunsets(in)) - in.now <= SHADE_SUNSET_LEAD_MIN

\* C22: the sunset test is true exactly when the next daylight-to-night
\* transition of the is_day array, the first one whose time is not before
\* the clock, lies within SHADE_SUNSET_LEAD_MIN minutes, also when the
\* array holds an earlier transition that is already past.
C22_SunsetIsNextTransition ==
    x_pc = "done" => (x_out.near <=> NextSunsetWithinLead(x_in))

\* ------------------------------------------------------------------------
\* Claims about the thermal simulator
\* ------------------------------------------------------------------------

\* a simulation has run
Simulated == x_pc # "call"

\* the forecast has no sun and the initial indoor temperature as outdoor
\* temperature in every hourly entry; exhaust fan and HVAC are off
NoForcing(in) ==
    /\ in.forecast.temperature_f # <<>>
    /\ \A i \in DOMAIN in.forecast.temperature_f :
          in.forecast.temperature_f[i] = in.state.indoor_temp
    /\ \A i \in DOMAIN in.forecast.solar_irradiance_wm2 :
          in.forecast.solar_irradiance_wm2[i] = Some(0)
    /\ ~in.state.fan_on
    /\ in.state.hvac_mode = "off"

\* a sample of the returned series, in 1/600 F, is the temperature of
\* whole degrees F up to the rounding to a tenth of a degree
WithinRounding(sample, degrees) ==
    /\ sample - degrees * 10 * steps_per_hour <= steps_per_hour \div 2
    /\ degrees * 10 * steps_per_hour - sample <= steps_per_hour \div 2

\* C23: with zero solar irradiance, an outdoor temperature equal to the
\* initial indoor temperature throughout the forecast, the exhaust fan off
\* and HVAC off, every air and mass temperature sample of the trajectory
\* equals the initial indoor temperature within the output rounding.
C23_NoDriftWithoutForcing ==
    (Simulated /\ NoForcing(x_in)) =>
        /\ \A i \in DOMAIN x_out.trajectory.air_temp_f :
              WithinRounding(x_out.trajectory.air_temp_f[i], Val(x_in.state.indoor_temp))
        /\ \A i \in DOMAIN x_out.trajectory.mass_temp_f :
              WithinRounding(x_out.trajectory.mass_temp_f[i], Val(x_in.state.indoor_temp))

\* C24: the two runs of one cycle use the same forecast alignment, and two
\* runs with the same state and the same forecast (the shades were open
\* already) return the same air and mass temperature series.
C24_SameAlignmentSameSeries ==
    x_pc = "done" =>
        /\ x_out.hour_offset_open = x_out.hour_offset
        /\ ShadesOpen(x_in.state) = x_in.state =>
              x_out.trajectory_open = x_out.trajectory

\* ------------------------------------------------------------------------
\* Claims about the MQTT cache of ShellyHT and the shutdown
\* ------------------------------------------------------------------------

\* the thread is between its accesses to _mqtt_data and _mqtt_last_update
ListenerInside == listener.pc \in {"locked", "parsed", "stored", "stamped", "rejected"}
ReaderInside == main_thread.pc \in {"locked", "fresh"}

\* C25: the accesses of mqtt_on_message and of read to the cache never
\* overlap and happen with the lock held; while read looks at the cache no
\* message is half stored (the stamp is not older than the temperature);
\* a payload that does not parse leaves the cache as it was.
C25_CacheUnderLock ==
    /\ ~(ListenerInside /\ ReaderInside)
    /\ ListenerInside => ht._lock = "listener"
    /\ ReaderInside => ht._lock = "main"
    /\ (ReaderInside /\ ~IsNone(heard)) =>
            /\ ~IsNone(ht._mqtt_last_update)
            /\ Val(heard).at <= Val(ht._mqtt_last_update)
            /\ ht._mqtt_data["temp_f"] = Val(heard).temp_f
    /\ listener.pc = "rejected" =>
            /\ ht._mqtt_data = listener.before._mqtt_data
            /\ ht._mqtt_last_update = listener.before._mqtt_last_update

\* C25 witness: read holds the lock and is about to return the cache while
\* the next message waits for the lock
C25_Witness ==
    /\ main_thread.pc = "fresh"
    /\ listener.pc = "waiting"
    /\ listener.msg.topic = "temperature:0"
    /\ listener.msg.tF # ht._mqtt_data["temp_f"]

\* a read has returned
ReadDone == main_thread.pc = "idle" /\ ~IsNone(main_thread.result)

\* at the read, a temperature had been received less than the staleness
\* threshold before
FreshTemperature(result) ==
    /\ ~IsNone(result.heard)
    /\ SecondsBetween(Val(result.heard).at, result.at) < MQTT_STALE_THRESHOLD

\* C26: read returns the cached temperature exactly when a temperature was
\* received less than MQTT_STALE_THRESHOLD seconds before the read, and
\* then it is the most recently received one; otherwise it falls back to
\* the cloud read.
C26_CachedTemperatureIsFresh ==
    ReadDone =>
        LET result == Val(main_thread.result)
        IN IF FreshTemperature(result)
           THEN /\ result.source = "mqtt"
                /\ result.temp_f = Some(Val(result.heard).temp_f)
           ELSE result.source = "cloud"

\* C27: once the process has shut down after setup_mqtt started the
\* listener, the listener is stopped and the database connection closed.
C27_ShutdownStopsListener ==
    (main_thread.pc = "exited" /\ ~IsNone(main_thread.mqtt_client)) =>
        /\ listener.pc = "stopped"
        /\ IsNone(proc._conn)

\* ------------------------------------------------------------------------
\* Claims about the order and the pacing of the cycle
\* ------------------------------------------------------------------------

\* s is the beginning of t
IsPrefixOf(s, t) ==
    /\ Len(s) <= Len(t)
    /\ \A i \in 1..Len(s) : s[i] = t[i]

\* the try block of the running cycle ended and nothing was raised in it
CycleCompleted == x_pc \in {"measure", "sleeping"} /\ ~x_in.raised

\* the row log_sensors wrote has, for every actuator, the value of the
\* command of this cycle that returned, and the restored value otherwise
RowAfterCommands ==
    /\ ~IsNone(sensor_log)
    /\ LET row == Val(sensor_log)
           base == Val(x_out.restored)
       IN /\ \A a \in Actuators \ {"hvac"} :
                StateField(row, a) =
                    IF a \in x_out.executed THEN Val(x_in.decisions)[a]
                    ELSE StateField(base, a)
          /\ row.hvac_mode = base.hvac_mode

\* C28: the statements of a cycle run in the order read, restore,
\* forecast, simulate, decide, execute, persist; a cycle without forecast
\* or indoor temperature goes from the forecast to persisting; the row a
\* completed cycle persisted holds the actuator fields as the commands
\* that returned in this cycle left them.
C28_StepsInOrderRowAfterCommands ==
    /\ IsPrefixOf(x_out.steps, FullCycle) \/ IsPrefixOf(x_out.steps, SkippedCycle)
    /\ CycleCompleted =>
            /\ x_out.steps \in {FullCycle, SkippedCycle}
            /\ RowAfterCommands

\* a cycle after the first commanded the east shades, the command
\* returned, and the row it persisted differs from the restored one
C28_Witness ==
    /\ CycleCompleted
    /\ x_out.steps = FullCycle
    /\ "shades_east" \in x_out.executed
    /\ ~IsNone(x_out.last_start)
    /\ Val(sensor_log).shades_east # Val(x_out.restored).shades_east

\* the cycle that has just taken its start time follows another one
SecondCycleStarted == x_pc = "read" /\ x_out.steps = <<>> /\ ~IsNone(x_out.last_start)

\* C29: a cycle starts after the one before it has ended, after a sleep of
\* at least max(0, poll interval - duration): not earlier than one poll
\* interval after the start of the cycle before, and at the instant the
\* cycle before ended when that one took the interval or longer.
C29_CyclesPaced ==
    SecondCycleStarted =>
        LET began == Val(x_out.last_start)
            ended == Val(x_out.last_end)
        IN /\ ended <= x_in.cycle_start
           /\ x_in.cycle_start - ended >= Max2(0, POLL_INTERVAL_SECONDS - (ended - began))
           /\ x_in.cycle_start - began >= POLL_INTERVAL_SECONDS
           /\ (ended - began >= POLL_INTERVAL_SECONDS) => x_in.cycle_start = ended

\* a cycle that overran the interval is followed at once
C29_Witness ==
    /\ SecondCycleStarted
    /\ Val(x_out.last_end) - Val(x_out.last_start) > POLL_INTERVAL_SECONDS
    /\ x_in.cycle_start = Val(x_out.last_end)

\* the actuator fields a state is seeded with: those of the last row of
\* the table, the dataclass defaults when the table has no row
CommittedActuators ==
    IF IsNone(sensor_log) THEN RowOf(NewState) ELSE Val(sensor_log)

\* C30: when the model run and the decision of a cycle begin, the shade,
\* fan and HVAC fields of the state are those of the row persisted last,
\* and the defaults only when no row was ever persisted.
C30_StateSeededFromLastRow ==
    x_pc = "simulate" => RowOf(x_in.state) = CommittedActuators

\* ------------------------------------------------------------------------
\* Further claims about execute()
\* ------------------------------------------------------------------------

\* the actuators of the dictionary that have a device behind them
Driven(decisions) == DOMAIN decisions \ {"hvac"}

\* C31: execute sends the device command of shades_east, shades_west or
\* fan exactly when the desired value differs from the field of the state
\* it was called with; a command that returned leaves the field equal to
\* the desired value; a desired value equal to the field sends no command
\* and leaves the field as it was.
C31_CommandIffDifferent ==
    x_pc = "done" =>
        /\ \A a \in Actuators \ {"hvac"} :
            (a \in x_out.attempted) <=>
                (a \in Driven(x_in.decisions)
                    /\ x_in.decisions[a] # StateField(x_in.state, a))
        /\ \A a \in x_out.attempted \ x_in.failing :
            StateField(x_out.state, a) = x_in.decisions[a]
        /\ \A a \in Driven(x_in.decisions) :
            x_in.decisions[a] = StateField(x_in.state, a) =>
                /\ a \notin x_out.attempted
                /\ StateField(x_out.state, a) = StateField(x_in.state, a)

\* the fan was switched on by a command that returned, and the east
\* shades, already closed, were asked to be closed and got no command
C31_Witness ==
    /\ x_pc = "done"
    /\ "fan" \in x_out.attempted \ x_in.failing
    /\ x_out.state.fan_on /\ ~x_in.state.fan_on
    /\ "shades_east" \in DOMAIN x_in.decisions
    /\ x_in.decisions["shades_east"] = "closed"
    /\ x_in.state.shades_east = "closed"
    /\ "shades_east" \notin x_out.attempted

\* execute() of the running cycle has returned
ExecuteReturned ==
    /\ x_pc \in {"persist", "measure", "sleeping"}
    /\ Len(x_out.steps) >= Len(FullCycle) - 1
    /\ x_out.steps[Len(FullCycle) - 1] = "execute"

\* the actuators whose device command raised in the running cycle
FailedCommands ==
    Commanded(Val(x_in.decisions), Val(x_out.restored)) \ x_out.executed

\* C32: a device command that raises inside execute leaves the field of
\* its actuator at the value from before the call, the other fields are
\* what the commands that returned made them, and the row persisted for
\* the cycle has, for an actuator whose command failed, the old position
\* and not the desired one.
C32_FailedCommandKeepsField ==
    ExecuteReturned =>
        /\ \A a \in FailedCommands :
            /\ StateField(x_in.state, a) = StateField(Val(x_out.restored), a)
            /\ StateField(x_in.state, a) # Val(x_in.decisions)[a]
        /\ \A a \in (Actuators \ {"hvac"}) \ (FailedCommands \cup x_out.executed) :
            StateField(x_in.state, a) = StateField(Val(x_out.restored), a)
        /\ x_in.state.hvac_mode = Val(x_out.restored).hvac_mode
        /\ CycleCompleted =>
            \A a \in FailedCommands :
                StateField(Val(sensor_log), a) # Val(x_in.decisions)[a]

\* the command that closes the east shades raised, the fan command
\* returned, and the row of the cycle has the shades open and the fan on
C32_Witness ==
    /\ ExecuteReturned
    /\ CycleCompleted
    /\ "shades_east" \in FailedCommands
    /\ "fan" \in x_out.executed
    /\ Val(sensor_log).shades_east = "open"
    /\ Val(sensor_log).fan_on

\* ------------------------------------------------------------------------
\* Claims about commands across cycles
\* ------------------------------------------------------------------------

\* the device commands execute() made in the running cycle
SentCommands == Commanded(Val(x_in.decisions), Val(x_out.restored))

\* C33: a device command that raised in one cycle is sent again in the
\* next cycle when decide() emits the same desired value for the actuator;
\* it is left unsent only when the device has been brought to that value.
C33_FailedCommandSentAgain ==
    ExecuteReturned =>
        \A p \in x_out.pending :
            (/\ p.actuator \in DOMAIN Val(x_in.decisions)
             /\ Val(x_in.decisions)[p.actuator] = p.desired)
                => \/ p.actuator \in SentCommands
                   \/ StateField(x_out.device, p.actuator) = p.desired

\* C34: when execute() leaves the fan command out because the desired
\* value equals state.fan_on, and the relay was last switched by the
\* dashboard, the relay is in the desired position.
C34_SkippedFanMatchesRelay ==
    (x_out.fan_skipped /\ x_out.by = "dashboard") =>
        x_out.position = x_out.fan_desired

\* C35: over cycles with the same readings, forecast, setpoints and sunset
\* proximity, no override and every command returning, a shade group
\* changes its position at most once.
C35_ShadeChangesAtMostOnce ==
    x_pc = "start" =>
        \A a \in {"shades_east", "shades_west"} : x_out.changes[a] <= 1

\* ------------------------------------------------------------------------
\* Claims about the cached forecast
\* ------------------------------------------------------------------------

\* C36: apply_bias_correction leaves the lists of the forecast it is given
\* as they are, so the dictionary kept as last_value still has the lists
\* as fetched, and the corrected forecast of every cycle, also of one that
\* reuses the cached forecast, is the fetched forecast shifted by the
\* delta of that cycle alone.
C36_CachedForecastUntouched ==
    ~IsNone(x_out.last_value) =>
        /\ Deref(x_out.heap, Val(x_out.last_value)) = Val(x_out.fetched_lists)
        /\ ~IsNone(x_out.corrected)
        /\ Deref(x_out.heap, Val(x_out.corrected)) =
                IF IsNone(x_out.station_reading) THEN Val(x_out.fetched_lists)
                ELSE apply_bias_correction(Val(x_out.fetched_lists),
                                           Val(x_out.station_reading),
                                           x_out.current_hour)

\* a cycle that reuses the cached forecast shifts its temperatures, after
\* an earlier cycle has already shifted the same forecast
C36_Witness ==
    /\ x_out.from_cache
    /\ x_out.shifted_before
    /\ IsShifted(x_out)
    /\ Deref(x_out.heap, Val(x_out.corrected)).temperature_f #
            Val(x_out.fetched_lists).temperature_f

\* ------------------------------------------------------------------------
\* Claims about the setpoints
\* ------------------------------------------------------------------------

\* the setpoint the loop is to use: the number stored last, or the default
StoredOr(stored, default) ==
    IF IsNone(stored) THEN default ELSE Val(stored)[2]

\* the dashboard has stored numbers only
StoredNumbers ==
    \A k \in {"heat", "cool"} :
        IsNone(x_out.stored[k]) \/ Val(x_out.stored[k])[1] = "number"

\* C37: a cool or heat setpoint stored through the dashboard is what
\* get_setpoints returns in the next cycle; the defaults are returned only
\* for a setpoint that was never stored, or when the table cannot be read.
C37_StoredSetpointReturned ==
    (~IsNone(x_out.returned) /\ x_out.readable /\ StoredNumbers) =>
        Val(x_out.returned) = <<StoredOr(x_out.stored.heat, DEFAULT_HEAT_SP),
                                StoredOr(x_out.stored.cool, DEFAULT_COOL_SP)>>

\* ------------------------------------------------------------------------
\* Claims about concurrent override requests
\* ------------------------------------------------------------------------

\* the committed rows of an actuator
RowsOf(rows, actuator) == {r \in rows : r.actuator = actuator}

\* the committed rows of an actuator with cancelled_at unset
Uncancelled(rows, actuator) ==
    {r \in RowsOf(rows, actuator) : IsNone(r.cancelled_at)}

\* some request on the actuator is at its commit
Committing(actuator) ==
    \E w \in WebThreads :
        /\ x_in[w].actuator = actuator
        /\ x_in[w].at \in {"set_inserted", "cancel_updated"}

AtMostOneUncancelled ==
    \A actuator \in OverrideTargets :
        Cardinality(Uncancelled(x_out.rows, actuator)) <= 1

\* a step that adds a row leaves it the only uncancelled row of its
\* actuator, and a step changes the rows of an actuator only by a commit of
\* a request on that actuator
OverrideStep ==
    /\ \A r \in x_out'.rows \ x_out.rows :
        IsNone(r.cancelled_at) => Uncancelled(x_out'.rows, r.actuator) = {r}
    /\ \A actuator \in OverrideTargets :
        RowsOf(x_out'.rows, actuator) # RowsOf(x_out.rows, actuator)
            => Committing(actuator)

\* C38: after any sequence of set-override and cancel-override requests,
\* concurrent ones included, each actuator has at most one override row
\* with cancelled_at unset; a set request cancels the earlier uncancelled
\* rows of its actuator together with its insert, and the rows of the
\* other actuators stay as they are.
C38_OneUncancelledOverride ==
    []AtMostOneUncancelled /\ [][OverrideStep]_vars

\* two requests on the same actuator were in flight together: the row
\* inserted first belongs to the request that arrived later, and the row of
\* the request that arrived first, which waited for the write lock,
\* replaced it; the other actuator's override is still uncancelled
C38_Witness ==
    /\ \E r1, r2 \in RowsOf(x_out.rows, "fan") :
        /\ r1.id < r2.id
        /\ ~IsNone(r1.cancelled_at)
        /\ IsNone(r2.cancelled_at)
        /\ InstantOf(r1.expires_at) > InstantOf(r2.expires_at)
    /\ Uncancelled(x_out.rows, "shades_east") # {}

\* ------------------------------------------------------------------------
\* Claims about the failure count
\* ------------------------------------------------------------------------

\* consecutive_failures of every device is the number of its calls that
\* used up both attempts since its last successful call
FailuresCounted ==
    \A d \in DOMAIN r_health :
        r_health[d].consecutive_failures = ExhaustedCalls(r_call.exhausted, d)

\* the fields of a health record a failure must not touch
KeptOnFailure(health) ==
    <<health.last_value, health.last_success, health.alert_sent>>

\* a step of a call: no record of another device changes; unless the call
\* succeeds in this step, the record of its own device keeps last_value,
\* last_success and alert_sent, and its count changes only in the step that
\* ends a call whose two attempts failed
RetryStep ==
    (r_pc # "idle" \/ r_pc' # "idle") =>
        /\ \A d \in DOMAIN r_health :
            d # r_call'.device => (d \in DOMAIN r_health' /\ r_health'[d] = r_health[d])
        /\ \A d \in DOMAIN r_health :
            (d = r_call'.device /\ r_pc' # "returned") => r_health'[d] = r_health[d]
        /\ (r_pc = "exhausted" /\ r_pc' = "returned") =>
            /\ BothAttemptsRaised
            /\ KeptOnFailure(r_health'[r_call.device])
                    = KeptOnFailure(r_health[r_call.device])
            /\ r_health'[r_call.device].consecutive_failures
                    = r_health[r_call.device].consecutive_failures + 1

\* C39: consecutive_failures of a device equals the number of its calls in
\* which both attempts failed since its last successful call (one per call,
\* not one per attempt); a failed call leaves last_value, last_success and
\* alert_sent of the device as they were, and no call changes the health
\* record of another device.
C39_FailuresPerExhaustedCall ==
    []FailuresCounted /\ [][RetryStep]_vars

\* a device that was read successfully and alerted since has failed two
\* calls in a row, while the other device's record differs from it
C39_Witness ==
    /\ r_pc = "returned"
    /\ BothAttemptsRaised
    /\ r_health[r_call.device].consecutive_failures = 2
    /\ ~IsNone(r_health[r_call.device].last_value)
    /\ r_health[r_call.device].alert_sent
    /\ \E d \in DOMAIN r_health :
        /\ d # r_call.device
        /\ r_health[d].consecutive_failures = 1

\* ------------------------------------------------------------------------
\* Claims about the integration step
\* ------------------------------------------------------------------------

\* C40: in every integration step the mass-node update uses the ground
\* coupling flow Q_ground = U_ground * (T_air - T_mass) that the air-node
\* update subtracted, computed from the temperatures at the start of the
\* step: what leaves the air through the coupling enters the mass.
C40_CouplingConserved ==
    x_pc = "stepped" => Val(x_out).coupling = Val(x_out).Q_ground

=============================================================================
